---------------------------- MODULE Spec2Model ----------------------------
(***************************************************************************)
(* GDALWarpOperation (alg/gdalwarpoperation.cpp, revision 1.5): the warp  *)
(* options holder, the source window estimator, the recursive chunker and *)
(* the per chunk region and buffer executors, as a state machine.         *)
(*                                                                         *)
(* Conventions.  A C pointer is a sequence of length 0 (NULL) or 1 (the   *)
(* pointee).  Doubles that the code only adds, halves and compares are    *)
(* kept exact: progress values are multiples of 1/ProgressOne, pixel      *)
(* coordinates are multiples of 1/RatioSteps.                             *)
(***************************************************************************)
EXTENDS Integers, Sequences, FiniteSets, TLC

VARIABLES
    psOptions,        \* GDALWarpOperation::psOptions (NULL or the owned copy)
    dfProgressBase,   \* GDALWarpOperation::dfProgressBase
    dfProgressScale,  \* GDALWarpOperation::dfProgressScale
    pc,               \* "idle", "running" (inside ChunkAndWarpImage), "crashed"
    eErrLast,         \* return value of the last completed public call
    lastCall,         \* name of the last completed public call
    stack,            \* ChunkAndWarpImage frames of the running call
    wr,               \* the WarpRegion / WarpRegionToBuffer call in progress
    heap,             \* live allocations made by the chunk executors
    nAllocs,          \* number of allocations made in the running call
    trace,            \* observable events of the running / last call
    topRect,          \* destination rectangle of the running / last call
    swArgs,           \* estimator study: arguments of ComputeSourceWindow
    swResult,         \* estimator study: its result
    psInitArg,        \* argument of the last Initialize call (NULL: none yet)
    noted,            \* holder study: one earlier successful Initialize
    maskCall          \* mask study: the last CreateKernelMask call made

vars == <<psOptions, dfProgressBase, dfProgressScale, pc, eErrLast, lastCall,
          stack, wr, heap, nAllocs, trace, topRect, swArgs, swResult, maskCall,
          psInitArg, noted>>

(***************************************************************************)
(* Pointers and error codes.                                               *)
(***************************************************************************)
NULL == <<>>
Ptr(x) == <<x>>
Deref(p) == p[1]

CE_None == "CE_None"
CE_Failure == "CE_Failure"

GRA_NearestNeighbour == "GRA_NearestNeighbour"
GRA_Bilinear == "GRA_Bilinear"
GRA_Cubic == "GRA_Cubic"

GA_ReadOnly == "GA_ReadOnly"
GA_Update == "GA_Update"

GDT_Unknown == 0
GDT_Byte == 1
GDT_Float64 == 7
GDT_CFloat64 == 11
GDT_TypeCount == 12

MAX(a, b) == IF a > b THEN a ELSE b
MIN(a, b) == IF a < b THEN a ELSE b

(***************************************************************************)
(* Raster library collaborators used by the options holder.               *)
(***************************************************************************)
\* GDALGetDataTypeSize: bits per pixel of a raster type, 0 for no type.
GDALGetDataTypeSize(eType) ==
    CASE eType = 1 -> 8
      [] eType \in {2, 3} -> 16
      [] eType \in {4, 5, 6, 8} -> 32
      [] eType \in {7, 9, 10} -> 64
      [] eType = 11 -> 128
      [] OTHER -> 0

GDALGetRasterCount(hDS) == Deref(hDS).nBands
GDALGetRasterXSize(hDS) == Deref(hDS).nRasterXSize
GDALGetRasterYSize(hDS) == Deref(hDS).nRasterYSize

\* GDALGetRasterBand: NULL for a band number outside 1..nBands.
GDALGetRasterBand(hDS, nBand) ==
    IF nBand >= 1 /\ nBand <= Deref(hDS).nBands
    THEN Ptr(Deref(hDS).bands[nBand])
    ELSE NULL

GDALGetRasterDataType(hBand) == Deref(hBand).eDataType
GDALGetRasterAccess(hBand) == Deref(hBand).eAccess

\* GDALCloneWarpOptions: a deep copy, equal field by field.
GDALCloneWarpOptions(psNewOptions) == Ptr(Deref(psNewOptions))

(***************************************************************************)
(* ValidateOptions, on the options record o = *psOptions.                 *)
(***************************************************************************)
\* A faulty variant of the band loop: the access of the destination band is
\* not looked at.
BandsInRangeAnyAccess(o) ==
    \A iBand \in 1..o.nBandCount :
        /\ ~ ( Deref(o.panSrcBands)[iBand] < 1
               \/ Deref(o.panSrcBands)[iBand] > GDALGetRasterCount(o.hSrcDS) )
        /\ ~ ( Deref(o.panDstBands)[iBand] < 1
               \/ Deref(o.panDstBands)[iBand] > GDALGetRasterCount(o.hDstDS) )

BandsInRange(o) ==
    \A iBand \in 1..o.nBandCount :
        /\ ~ ( Deref(o.panSrcBands)[iBand] < 1
               \/ Deref(o.panSrcBands)[iBand] > GDALGetRasterCount(o.hSrcDS) )
        /\ ~ ( Deref(o.panDstBands)[iBand] < 1
               \/ Deref(o.panDstBands)[iBand] > GDALGetRasterCount(o.hDstDS) )
        /\ ~ ( GDALGetRasterAccess(
                  GDALGetRasterBand(o.hDstDS, Deref(o.panDstBands)[iBand]))
               = GA_ReadOnly )

WorkingTypeRejected(o) ==
    o.eWorkingDataType < 1 /\ o.eWorkingDataType >= GDT_TypeCount

SrcNoDataRejected(o) ==
    o.padfSrcNoDataReal # NULL /\ o.padfSrcNoDataImag = NULL

BandCountRejected(o) == o.nBandCount = 0

ValidateRecord(o) ==
    IF o.dfWarpMemoryLimit < 100000 THEN FALSE
    ELSE IF /\ o.eResampleAlg # GRA_NearestNeighbour
            /\ o.eResampleAlg # GRA_Bilinear
            /\ o.eResampleAlg # GRA_Cubic THEN FALSE
    ELSE IF WorkingTypeRejected(o) THEN FALSE
    ELSE IF o.hSrcDS = NULL THEN FALSE
    ELSE IF o.hDstDS = NULL THEN FALSE
    ELSE IF BandCountRejected(o) THEN FALSE
    ELSE IF o.panSrcBands = NULL \/ o.panDstBands = NULL THEN FALSE
    ELSE IF ~ BandsInRange(o) THEN FALSE
    ELSE IF SrcNoDataRejected(o) THEN FALSE
    ELSE IF o.pfnProgress = NULL THEN FALSE
    ELSE IF o.pfnTransformer = NULL THEN FALSE
    ELSE TRUE

ValidateOptions(ps) ==
    IF ps = NULL THEN FALSE ELSE ValidateRecord(Deref(ps))

(***************************************************************************)
(* Initialize: the defaulting steps.                                       *)
(***************************************************************************)
Identity(n) == [i \in 1..n |-> i]

DefaultBandMapping(o) ==
    IF /\ o.nBandCount = 0
       /\ o.hSrcDS # NULL
       /\ o.hDstDS # NULL
       /\ GDALGetRasterCount(o.hSrcDS) = GDALGetRasterCount(o.hDstDS)
    THEN [o EXCEPT !.nBandCount = GDALGetRasterCount(o.hSrcDS),
                   !.panSrcBands = Ptr(Identity(GDALGetRasterCount(o.hSrcDS))),
                   !.panDstBands = Ptr(Identity(GDALGetRasterCount(o.hSrcDS)))]
    ELSE o

\* The working type is defaulted from destination band panDstBands[0].
WantsDefaultType(o) ==
    /\ o.eWorkingDataType = GDT_Unknown
    /\ o.hDstDS # NULL
    /\ o.nBandCount >= 1

\* The read of panDstBands[0] goes through a null pointer.
DefaultTypeReadsNull(o) == WantsDefaultType(o) /\ o.panDstBands = NULL

\* nFirstDstBand is the value read as panDstBands[0].
DefaultWorkingType(o, nFirstDstBand) ==
    IF WantsDefaultType(o)
    THEN LET hBand == GDALGetRasterBand(o.hDstDS, nFirstDstBand)
         IN  IF hBand # NULL
             THEN [o EXCEPT !.eWorkingDataType = GDALGetRasterDataType(hBand)]
             ELSE o
    ELSE o

DefaultMemoryLimit(o) ==
    IF o.dfWarpMemoryLimit = 0
    THEN [o EXCEPT !.dfWarpMemoryLimit = 64 * 1024 * 1024]
    ELSE o

\* The options after the three defaulting steps.
Defaulted(psNewOptions, nFirstDstBand) ==
    DefaultMemoryLimit(
        DefaultWorkingType(
            DefaultBandMapping(Deref(GDALCloneWarpOptions(psNewOptions))),
            nFirstDstBand))

\* Values a read through the null panDstBands may produce when it does not trap.
WildBandNumbers == {0, 1}

FirstDstBandValues(psNewOptions) ==
    LET o == DefaultBandMapping(Deref(GDALCloneWarpOptions(psNewOptions)))
    IN  IF DefaultTypeReadsNull(o) THEN WildBandNumbers
        ELSE IF WantsDefaultType(o) THEN {Deref(o.panDstBands)[1]}
        ELSE {0}


(***************************************************************************)
(* The coordinate transformer collaborator.  Coordinates are integers in  *)
(* units of 1/RatioSteps pixel.  pTransformerArg describes one member of  *)
(* a family of transformers: an integer scale and a shift, with per point *)
(* failures chosen by index or by destination position.  A failed point   *)
(* is left with the coordinate nJunk.                                      *)
(***************************************************************************)
RatioSteps == 20
nSamplePoints == 84

PointFails(arg, i, pt) ==
    \/ i <= arg.nFailFirst
    \/ pt.x >= arg.nFailFromX * RatioSteps
    \/ pt.x < arg.nFailBelowX * RatioSteps

GDALTransform(arg, pts) ==
    [ bOK |-> ~ arg.bBatchFail,
      abSuccess |-> [i \in 1..Len(pts) |-> ~ PointFails(arg, i, pts[i])],
      adfX |-> [i \in 1..Len(pts) |->
                  IF PointFails(arg, i, pts[i]) THEN arg.nJunk
                  ELSE arg.nScale * pts[i].x + arg.nShiftX],
      adfY |-> [i \in 1..Len(pts) |->
                  IF PointFails(arg, i, pts[i]) THEN arg.nJunk
                  ELSE arg.nScale * pts[i].y + arg.nShiftY] ]

(***************************************************************************)
(* ComputeSourceWindow.                                                    *)
(***************************************************************************)
\* (int) floor(d) and (int) ceil(d) of a coordinate d given in 1/RatioSteps.
Floor(d) == d \div RatioSteps
Ceil(d) == - ((- d) \div RatioSteps)

\* The four points emitted for one value of dfRatio = k / RatioSteps.
EdgePoints(k, nDstXOff, nDstYOff, nDstXSize, nDstYSize) ==
    << [x |-> k * nDstXSize + RatioSteps * nDstXOff,
        y |-> RatioSteps * nDstYOff],
       [x |-> k * nDstXSize + RatioSteps * nDstXOff,
        y |-> RatioSteps * (nDstYOff + nDstYSize)],
       [x |-> RatioSteps * nDstXOff,
        y |-> k * nDstYSize + RatioSteps * nDstYOff],
       [x |-> RatioSteps * (nDstXSize + nDstXOff),
        y |-> k * nDstYSize + RatioSteps * nDstYOff] >>

RECURSIVE SamplePointsFrom(_, _, _, _, _)
SamplePointsFrom(k, nDstXOff, nDstYOff, nDstXSize, nDstYSize) ==
    IF k > RatioSteps THEN << >>
    ELSE EdgePoints(k, nDstXOff, nDstYOff, nDstXSize, nDstYSize)
         \o SamplePointsFrom(k + 1, nDstXOff, nDstYOff, nDstXSize, nDstYSize)

SamplePoints(nDstXOff, nDstYOff, nDstXSize, nDstYSize) ==
    SamplePointsFrom(0, nDstXOff, nDstYOff, nDstXSize, nDstYSize)

SetMin(S) == CHOOSE m \in S : \A n \in S : m <= n
SetMax(S) == CHOOSE m \in S : \A n \in S : m >= n

\* A faulty variant of the loop: the bounds range over every sample, the
\* failed ones included.
CollectBoundsOfAll(t) ==
    [ nFailedCount |->
          Cardinality({ i \in 1..nSamplePoints : ~ t.abSuccess[i] }),
      dfMinXOut |-> SetMin({ t.adfX[i] : i \in 1..nSamplePoints }),
      dfMaxXOut |-> SetMax({ t.adfX[i] : i \in 1..nSamplePoints }),
      dfMinYOut |-> SetMin({ t.adfY[i] : i \in 1..nSamplePoints }),
      dfMaxYOut |-> SetMax({ t.adfY[i] : i \in 1..nSamplePoints }) ]

\* The bounds collecting loop: samples flagged as failed are counted and
\* skipped, the first surviving sample initializes the bounds and every later
\* one widens them.  With no surviving sample the bounds stay unset (0 here;
\* the caller returns before reading them).
CollectBounds(t) ==
    LET Bounds(survivors) ==
            LET bGotInitialPoint == survivors # { }
            IN  [ nFailedCount |-> nSamplePoints - Cardinality(survivors),
                  dfMinXOut |-> IF bGotInitialPoint
                                THEN SetMin({ t.adfX[i] : i \in survivors })
                                ELSE 0,
                  dfMaxXOut |-> IF bGotInitialPoint
                                THEN SetMax({ t.adfX[i] : i \in survivors })
                                ELSE 0,
                  dfMinYOut |-> IF bGotInitialPoint
                                THEN SetMin({ t.adfY[i] : i \in survivors })
                                ELSE 0,
                  dfMaxYOut |-> IF bGotInitialPoint
                                THEN SetMax({ t.adfY[i] : i \in survivors })
                                ELSE 0 ]
    IN  CHOOSE b \in { Bounds(survivors) :
                         survivors \in { { i \in 1..nSamplePoints :
                                             t.abSuccess[i] } } } : TRUE

\* A faulty variant of the threshold: ten surviving points are too few.
TooManyFailedAtTen(nFailedCount) == nFailedCount >= nSamplePoints - 10

TooManyFailed(nFailedCount) == nFailedCount > nSamplePoints - 10

ResWinSize(eResampleAlg) ==
    IF eResampleAlg = GRA_Cubic THEN 2
    ELSE IF eResampleAlg = GRA_Bilinear THEN 1
    ELSE 0

\* The window written through the four output pointers.
SourceBounds(o, b) ==
    LET nResWinSize == ResWinSize(o.eResampleAlg)
        nSrcXOff == MAX(0, Floor(b.dfMinXOut) + nResWinSize)
        nSrcYOff == MAX(0, Floor(b.dfMinYOut) + nResWinSize)
    IN  [ nSrcXOff |-> nSrcXOff,
          nSrcYOff |-> nSrcYOff,
          nSrcXSize |-> MIN(GDALGetRasterXSize(o.hSrcDS) - nSrcXOff,
                            Ceil(b.dfMaxXOut) - nSrcXOff + nResWinSize),
          nSrcYSize |-> MIN(GDALGetRasterYSize(o.hSrcDS) - nSrcYOff,
                            Ceil(b.dfMaxYOut) - nSrcYOff + nResWinSize) ]

\* win holds the caller's four output variables before the call; the result
\* holds them after it.
ComputeSourceWindow(o, nDstXOff, nDstYOff, nDstXSize, nDstYSize, win) ==
    LET Transformed ==
            { GDALTransform(o.pTransformerArg, pts) :
                pts \in { SamplePoints(nDstXOff, nDstYOff,
                                       nDstXSize, nDstYSize) } }
        Outcome(t, b) ==
            IF ~ t.bOK THEN [eErr |-> CE_Failure, win |-> win]
            ELSE IF TooManyFailed(b.nFailedCount)
            THEN [eErr |-> CE_Failure, win |-> win]
            ELSE [eErr |-> CE_None, win |-> SourceBounds(o, b)]
    IN  CHOOSE r \in UNION { { Outcome(t, b) : b \in { CollectBounds(t) } } :
                               t \in Transformed } : TRUE

NoWindow == [nSrcXOff |-> 0, nSrcYOff |-> 0, nSrcXSize |-> 0, nSrcYSize |-> 0]


(***************************************************************************)
(* Bounds of the model and the datasets and options records it is run on. *)
(***************************************************************************)
MaxDstSize == 4          \* destination windows are at most this wide and high
MaxDstOff == 1           \* and start at most this far from the origin
SrcRasterSize == 4000    \* the source raster is this wide and high
ProgressBits == 10       \* progress values are multiples of 2^-ProgressBits
ValueSteps == 2          \* pixel and no-data values are multiples of 1/ValueSteps

ProgressOne == 2 ^ ProgressBits

Band(eDataType, eAccess) == [eDataType |-> eDataType, eAccess |-> eAccess]

SrcDS ==
    Ptr([nBands |-> 2, nRasterXSize |-> SrcRasterSize,
         nRasterYSize |-> SrcRasterSize,
         bands |-> << Band(GDT_Byte, GA_ReadOnly), Band(GDT_Byte, GA_ReadOnly) >>])

\* Two writable bands; the second has no raster type.
DstDS2 ==
    Ptr([nBands |-> 2, nRasterXSize |-> 16, nRasterYSize |-> 16,
         bands |-> << Band(GDT_Byte, GA_Update), Band(GDT_Unknown, GA_Update) >>])

\* Three bands, the third read-only.
DstDS3 ==
    Ptr([nBands |-> 3, nRasterXSize |-> 16, nRasterYSize |-> 16,
         bands |-> << Band(GDT_Float64, GA_Update), Band(GDT_Float64, GA_Update),
                      Band(GDT_Float64, GA_ReadOnly) >>])

TransformerArg(nScale, nShift, nFailFirst, nFailFromX, nFailBelowX, bBatchFail) ==
    [nScale |-> nScale, nShiftX |-> nShift, nShiftY |-> nShift,
     nFailFirst |-> nFailFirst, nFailFromX |-> nFailFromX,
     nFailBelowX |-> nFailBelowX, bBatchFail |-> bBatchFail,
     nJunk |-> 1000000]

\* No destination position reaches this one.
Never == 1000

IdentityTransformer == TransformerArg(1, 0, 0, Never, - Never, FALSE)

BaseOptions ==
    [ hSrcDS |-> SrcDS, hDstDS |-> DstDS2,
      nBandCount |-> 2,
      panSrcBands |-> Ptr(<<1, 2>>), panDstBands |-> Ptr(<<1, 2>>),
      eWorkingDataType |-> GDT_Byte,
      eResampleAlg |-> GRA_NearestNeighbour,
      dfWarpMemoryLimit |-> 100000,
      padfSrcNoDataReal |-> NULL, padfSrcNoDataImag |-> NULL,
      padfDstNoDataReal |-> NULL, padfDstNoDataImag |-> NULL,
      pfnSrcDensityMaskFunc |-> NULL,
      papfnSrcPerBandValidityMaskFunc |-> NULL,
      pfnSrcValidityMaskFunc |-> NULL,
      pfnDstDensityMaskFunc |-> NULL,
      pfnDstValidityMaskFunc |-> NULL,
      pfnTransformer |-> Ptr("pfnTransformer"),
      pTransformerArg |-> IdentityTransformer,
      pfnProgress |-> Ptr("pfnProgress"),
      papszWarpOptions |-> << >> ]

\* Band arrays of at least nBandCount entries.
BandArrays(nBandCount) ==
    IF nBandCount <= 0 THEN { << >> }
    ELSE { Identity(nBandCount),
           [i \in 1..nBandCount |-> 3],
           [i \in 1..nBandCount |-> 0] }

BandPointers(nBandCount) ==
    {NULL} \cup { Ptr(a) : a \in BandArrays(nBandCount) }

NoDataPointers == { NULL, Ptr(<<0, 7>>) }

\* Records that vary the band mapping, the working type and the destination.
BandOptionRecords ==
    UNION { { [BaseOptions EXCEPT !.nBandCount = n, !.panSrcBands = s,
                                  !.panDstBands = d, !.eWorkingDataType = t,
                                  !.hDstDS = ds] :
                s \in BandPointers(n), d \in BandPointers(n),
                t \in {-1, GDT_Unknown, GDT_Byte, GDT_TypeCount},
                ds \in {NULL, DstDS2, DstDS3} } :
            n \in {-1, 0, 1, 2} }

\* Records that vary the presence of the four no-data arrays.
NoDataOptionRecords ==
    { [BaseOptions EXCEPT !.padfSrcNoDataReal = sr, !.padfSrcNoDataImag = si,
                          !.padfDstNoDataReal = dr, !.padfDstNoDataImag = di,
                          !.eResampleAlg = alg,
                          !.papszWarpOptions = w] :
        sr \in NoDataPointers, si \in NoDataPointers,
        dr \in NoDataPointers, di \in NoDataPointers,
        alg \in {GRA_NearestNeighbour, GRA_Bilinear, GRA_Cubic},
        w \in { << >>, << <<"INIT_DEST", "NO_DATA">> >> } }

\* Records that vary the budget, the algorithm, the callbacks and the source.
OtherOptionRecords ==
    { [BaseOptions EXCEPT !.dfWarpMemoryLimit = m, !.eResampleAlg = alg,
                          !.pfnProgress = pp, !.pfnTransformer = pt,
                          !.hSrcDS = ds] :
        m \in {0, 99999, 100000},
        alg \in {GRA_NearestNeighbour, GRA_Bilinear, GRA_Cubic, "GRA_Other"},
        pp \in {NULL, Ptr("pfnProgress")},
        pt \in {NULL, Ptr("pfnTransformer")},
        ds \in {NULL, SrcDS} }

\* A record that leaves the band mapping, the working type and the budget to
\* Initialize.
DefaultsRecord ==
    [BaseOptions EXCEPT !.nBandCount = 0, !.panSrcBands = NULL,
                        !.panDstBands = NULL, !.eWorkingDataType = GDT_Unknown,
                        !.dfWarpMemoryLimit = 0]

OptionRecords ==
    BandOptionRecords \cup NoDataOptionRecords \cup OtherOptionRecords
    \cup {DefaultsRecord}

(***************************************************************************)
(* The options holder: WipeOptions and Initialize.                         *)
(***************************************************************************)
NoRect == [nDstXOff |-> 0, nDstYOff |-> 0, nDstXSize |-> 0, nDstYSize |-> 0]
NoTrace ==
    [leaves |-> << >>, kernel |-> << >>, io |-> << >>,
     dfEntryBase |-> 0, dfEntryScale |-> 0]

\* noted remembers one earlier successful Initialize: its argument, the
\* options it left held, and whether WipeOptions has run since.
WipeNoted ==
    IF noted = NULL THEN NULL ELSE Ptr([Deref(noted) EXCEPT !.bWiped = TRUE])

\* A faulty variant of WipeOptions: the holder keeps what it has.
NotWiped(ps) == ps

\* The holder after WipeOptions().
Wiped(ps) == IF ps # NULL THEN NULL ELSE ps

\* What Initialize( psNewOptions ) may do: trap on the null band array, or
\* return eErr with ps held.
InitializeOutcomes(ps, psNewOptions) ==
    LET o0 == DefaultBandMapping(Deref(GDALCloneWarpOptions(psNewOptions)))
        traps == IF DefaultTypeReadsNull(o0)
                 THEN { [bTrap |-> TRUE, ps |-> Ptr(o0), eErr |-> CE_Failure] }
                 ELSE { }
        returns ==
            { LET held == Ptr(Defaulted(psNewOptions, nFirst))
              IN  IF ~ ValidateOptions(held)
                  THEN [bTrap |-> FALSE, ps |-> Wiped(held), eErr |-> CE_Failure]
                  ELSE [bTrap |-> FALSE, ps |-> held, eErr |-> CE_None] :
              nFirst \in FirstDstBandValues(psNewOptions) }
    IN  traps \cup returns

InitializeFrom(records) ==
    /\ pc = "idle"
    /\ \E new \in records :
         \E r \in InitializeOutcomes(Wiped(psOptions), Ptr(new)) :
            /\ psInitArg' = Ptr(new)
            /\ psOptions' = r.ps
            /\ eErrLast' = r.eErr
            /\ pc' = IF r.bTrap THEN "crashed" ELSE "idle"
    /\ lastCall' = "Initialize"
    /\ trace' = NoTrace
    /\ topRect' = NoRect
    /\ UNCHANGED <<dfProgressBase, dfProgressScale, stack, wr, heap, nAllocs,
                   swArgs, swResult, maskCall>>

WipeOptions ==
    /\ pc = "idle"
    /\ psOptions' = Wiped(psOptions)
    /\ lastCall' = "WipeOptions"
    /\ eErrLast' = CE_None
    /\ trace' = NoTrace
    /\ topRect' = NoRect
    /\ noted' = WipeNoted
    /\ UNCHANGED <<dfProgressBase, dfProgressScale, pc, stack, wr, heap, nAllocs,
                   swArgs, swResult, maskCall, psInitArg>>

\* The state after the constructor.
Init ==
    /\ psOptions = NULL
    /\ dfProgressBase = 0
    /\ dfProgressScale = ProgressOne
    /\ pc = "idle"
    /\ eErrLast = CE_None
    /\ lastCall = "GDALWarpOperation"
    /\ stack = << >>
    /\ wr = NULL
    /\ heap = { }
    /\ nAllocs = 0
    /\ trace = NoTrace
    /\ topRect = NoRect
    /\ swArgs = NULL
    /\ swResult = NULL
    /\ maskCall = NULL
    /\ psInitArg = NULL
    /\ noted = NULL

(***************************************************************************)
(* OptSpec: the options holder alone, on every record of OptionRecords.   *)
(***************************************************************************)
InitializeAny == InitializeFrom(OptionRecords) /\ UNCHANGED noted

OptNext == InitializeAny \/ WipeOptions

OptSpec == Init /\ [][OptNext]_vars

(***************************************************************************)
(* HolderSpec: sequences of Initialize and WipeOptions calls in which one  *)
(* successful Initialize is remembered, to compare later calls with it.    *)
(***************************************************************************)
HolderRecords ==
    { r \in OtherOptionRecords :
        /\ r.hSrcDS # NULL /\ r.pfnTransformer # NULL
        /\ r.eResampleAlg \in {GRA_NearestNeighbour, GRA_Cubic, "GRA_Other"} }
    \cup {DefaultsRecord}

\* Remember the Initialize just made, if it succeeded, or keep what is noted.
Note ==
    noted' \in {noted}
        \cup (IF pc' = "idle" /\ eErrLast' = CE_None
              THEN { Ptr([arg |-> psInitArg', held |-> psOptions',
                          bWiped |-> FALSE]) }
              ELSE { })

InitializeNoted == InitializeFrom(HolderRecords) /\ Note

HolderNext == InitializeNoted \/ WipeOptions

HolderSpec == Init /\ [][HolderNext]_vars


(***************************************************************************)
(* Faulty variants of the chunker's arithmetic.  Each one, put in place   *)
(* of the operator it imitates, breaks one of the properties stated at    *)
(* the end of the module.                                                  *)
(***************************************************************************)
\* The second window starts where the first one starts.
UpperChunkNoOffset(rect) ==
    IF rect.nDstXSize > rect.nDstYSize
    THEN [rect EXCEPT !.nDstXSize = rect.nDstXSize - rect.nDstXSize \div 2]
    ELSE [rect EXCEPT !.nDstYSize = rect.nDstYSize - rect.nDstYSize \div 2]

\* The saved pair is not written back.
ProgressNotRestored(frame, dfBase, dfScale) ==
    [dfProgressBase |-> dfBase, dfProgressScale |-> dfScale]

\* The base is not moved between the two recursive calls.
BaseNotAdvanced(dfBase, dfScale) == dfBase

\* The 2-pixel guard is dropped.
AlwaysSplit(rect) == TRUE

\* The split goes along the shorter side.
SplitsAlongShorter(rect) == rect.nDstXSize < rect.nDstYSize

\* The first recursive call is given the upper half.
UpperChunkFirst(rect) ==
    IF rect.nDstXSize > rect.nDstYSize
    THEN [rect EXCEPT !.nDstXOff = rect.nDstXOff + rect.nDstXSize \div 2,
                      !.nDstXSize = rect.nDstXSize - rect.nDstXSize \div 2]
    ELSE [rect EXCEPT !.nDstYOff = rect.nDstYOff + rect.nDstYSize \div 2,
                      !.nDstYSize = rect.nDstYSize - rect.nDstYSize \div 2]

(***************************************************************************)
(* ChunkAndWarpImage: the cost model and the split.                       *)
(***************************************************************************)
SrcPixelCostInBits(o) ==
    GDALGetDataTypeSize(o.eWorkingDataType) * o.nBandCount
    + (IF o.pfnSrcDensityMaskFunc # NULL THEN 32 ELSE 0)
    + (IF o.papfnSrcPerBandValidityMaskFunc # NULL \/ o.padfSrcNoDataReal # NULL
       THEN o.nBandCount ELSE 0)
    + (IF o.pfnSrcValidityMaskFunc # NULL THEN 1 ELSE 0)

DstPixelCostInBits(o) ==
    GDALGetDataTypeSize(o.eWorkingDataType) * o.nBandCount
    + (IF o.pfnDstDensityMaskFunc # NULL THEN 32 ELSE 0)
    + (IF o.padfDstNoDataReal # NULL \/ o.pfnDstValidityMaskFunc # NULL
       THEN o.nBandCount ELSE 0)

\* 8 * dfTotalMemoryUse: the estimated cost of a chunk, in bits.
TotalMemoryUseInBits(o, rect, win) ==
    SrcPixelCostInBits(o) * win.nSrcXSize * win.nSrcYSize
    + DstPixelCostInBits(o) * rect.nDstXSize * rect.nDstYSize

ExceedsMemoryLimit(o, rect, win) ==
    TotalMemoryUseInBits(o, rect, win) > 8 * o.dfWarpMemoryLimit

SplitGuard(rect) == rect.nDstXSize > 2 \/ rect.nDstYSize > 2

MustSplit(o, rect, win) == ExceedsMemoryLimit(o, rect, win) /\ SplitGuard(rect)

SplitsAlongX(rect) == rect.nDstXSize > rect.nDstYSize

\* The first recursive call's window.
LowerChunk(rect) ==
    IF SplitsAlongX(rect)
    THEN [rect EXCEPT !.nDstXSize = rect.nDstXSize \div 2]
    ELSE [rect EXCEPT !.nDstYSize = rect.nDstYSize \div 2]

\* The second recursive call's window.
UpperChunk(rect) ==
    IF SplitsAlongX(rect)
    THEN LET nChunk1 == rect.nDstXSize \div 2
             nChunk2 == rect.nDstXSize - nChunk1
         IN  [rect EXCEPT !.nDstXOff = rect.nDstXOff + nChunk1,
                          !.nDstXSize = nChunk2]
    ELSE LET nChunk1 == rect.nDstYSize \div 2
             nChunk2 == rect.nDstYSize - nChunk1
         IN  [rect EXCEPT !.nDstYOff = rect.nDstYOff + nChunk1,
                          !.nDstYSize = nChunk2]

\* dfProgressScale *= 0.5
HalvedScale(dfScale) == dfScale \div 2

\* dfProgressBase += dfProgressScale, between the two recursive calls.
AdvancedBase(dfBase, dfScale) == dfBase + dfScale

\* The progress pair on return from a frame that split.
RestoredProgress(frame, dfBase, dfScale) ==
    [dfProgressBase |-> frame.dfSaveBase, dfProgressScale |-> frame.dfSaveScale]

\* One activation of ChunkAndWarpImage: its arguments, its position, the
\* source window and the saved progress pair it keeps in local variables.
Frame(rect) ==
    [rect |-> rect, state |-> "enter", eErr |-> CE_None, win |-> NoWindow,
     dfSaveBase |-> 0, dfSaveScale |-> 0]

Top == stack[Len(stack)]
Parent == stack[Len(stack) - 1]
WithTop(frame) == [stack EXCEPT ![Len(stack)] = frame]
Returned(frame, eErr) == [frame EXCEPT !.state = "done", !.eErr = eErr]

(***************************************************************************)
(* Memory: VSIMalloc / CPLCalloc / VSIFree on the set of live blocks.     *)
(* mem is the pair of heap and nAllocs; a block pointer is Ptr(id).       *)
(***************************************************************************)
Mem(h, n) == [heap |-> h, nAllocs |-> n]

\* nFill is the byte the block was memset to, -1 for none.
Malloc(mem, what, nBytes, nFill) ==
    [heap |-> mem.heap \cup { [id |-> mem.nAllocs + 1, what |-> what,
                               nBytes |-> nBytes, nFill |-> nFill] },
     nAllocs |-> mem.nAllocs + 1]

LastBlock(mem) == Ptr(mem.nAllocs)

Free(mem, p) ==
    IF p = NULL THEN mem
    ELSE [mem EXCEPT !.heap = { b \in mem.heap : b.id # Deref(p) }]

FreeAll(mem, ps) ==
    [mem EXCEPT !.heap = { b \in mem.heap : Ptr(b.id) \notin ps }]

(***************************************************************************)
(* The kernel descriptor oWK and CreateKernelMask.                         *)
(***************************************************************************)
\* GDALWarpKernel::GDALWarpKernel(): every buffer and mask pointer is null.
NewKernel ==
    [ nBands |-> 0,
      nSrcXSize |-> 0, nSrcYSize |-> 0, nDstXSize |-> 0, nDstYSize |-> 0,
      dfProgressBase |-> 0, dfProgressScale |-> 0,
      papabySrcImage |-> NULL, srcImage |-> << >>,
      papabyDstImage |-> NULL,
      papanBandSrcValid |-> NULL, bandSrcValid |-> << >>,
      panUnifiedSrcValid |-> NULL,
      pafUnifiedSrcDensity |-> NULL,
      panDstValid |-> NULL,
      pafDstDensity |-> NULL ]

KnownMaskTypes ==
    {"BandSrcValid", "UnifiedSrcValid", "UnifiedSrcDensity", "DstValid",
     "DstDensity"}

MaskOnSource(pszType) ==
    pszType \in {"BandSrcValid", "UnifiedSrcValid", "UnifiedSrcDensity"}

MaskBitsPerPixel(pszType) ==
    IF pszType \in {"UnifiedSrcDensity", "DstDensity"} THEN 32 ELSE 1

MaskDefault(pszType) ==
    IF pszType \in {"UnifiedSrcDensity", "DstDensity"} THEN 0 ELSE 255

\* A faulty variant of the size: the bits of a validity plane are not
\* rounded up to whole bytes.
MaskBytesRoundedDown(k, pszType) ==
    LET nXSize == IF MaskOnSource(pszType) THEN k.nSrcXSize ELSE k.nDstXSize
        nYSize == IF MaskOnSource(pszType) THEN k.nSrcYSize ELSE k.nDstYSize
    IN  IF MaskBitsPerPixel(pszType) = 32
        THEN nXSize * nYSize * 4
        ELSE (nXSize * nYSize) \div 8

MaskBytes(k, pszType) ==
    LET nXSize == IF MaskOnSource(pszType) THEN k.nSrcXSize ELSE k.nDstXSize
        nYSize == IF MaskOnSource(pszType) THEN k.nSrcYSize ELSE k.nDstYSize
    IN  IF MaskBitsPerPixel(pszType) = 32
        THEN nXSize * nYSize * 4
        ELSE (nXSize * nYSize + 7) \div 8

\* *ppMask
MaskSlot(k, iBand, pszType) ==
    CASE pszType = "BandSrcValid" -> k.bandSrcValid[iBand + 1]
      [] pszType = "UnifiedSrcValid" -> k.panUnifiedSrcValid
      [] pszType = "UnifiedSrcDensity" -> k.pafUnifiedSrcDensity
      [] pszType = "DstValid" -> k.panDstValid
      [] pszType = "DstDensity" -> k.pafDstDensity

WithMaskSlot(k, iBand, pszType, p) ==
    CASE pszType = "BandSrcValid" -> [k EXCEPT !.bandSrcValid[iBand + 1] = p]
      [] pszType = "UnifiedSrcValid" -> [k EXCEPT !.panUnifiedSrcValid = p]
      [] pszType = "UnifiedSrcDensity" -> [k EXCEPT !.pafUnifiedSrcDensity = p]
      [] pszType = "DstValid" -> [k EXCEPT !.panDstValid = p]
      [] pszType = "DstDensity" -> [k EXCEPT !.pafDstDensity = p]

\* CreateKernelMask( &k, iBand, pszType ); bMallocOK says whether VSIMalloc,
\* if called, returns a block.
CreateKernelMask(k, mem, iBand, pszType, bMallocOK) ==
    IF pszType \notin KnownMaskTypes
    THEN [eErr |-> CE_Failure, oWK |-> k, mem |-> mem]
    ELSE
    LET bNeedArray == pszType = "BandSrcValid" /\ k.papanBandSrcValid = NULL
        mem1 == IF bNeedArray
                THEN Malloc(mem, "papanBandSrcValid", k.nBands, 0)
                ELSE mem
        k1 == IF bNeedArray
              THEN [k EXCEPT !.papanBandSrcValid = LastBlock(mem1),
                             !.bandSrcValid = [i \in 1..k.nBands |-> NULL]]
              ELSE k
    IN  IF MaskSlot(k1, iBand, pszType) # NULL
        THEN [eErr |-> CE_None, oWK |-> k1, mem |-> mem1]
        ELSE IF ~ bMallocOK
        THEN [eErr |-> CE_Failure, oWK |-> k1, mem |-> mem1]
        ELSE LET mem2 == Malloc(mem1, pszType, MaskBytes(k1, pszType),
                                MaskDefault(pszType))
             IN  [eErr |-> CE_None,
                  oWK |-> WithMaskSlot(k1, iBand, pszType, LastBlock(mem2)),
                  mem |-> mem2]

\* Every mask block the descriptor owns.
KernelMasks(k) ==
    { k.papanBandSrcValid, k.panUnifiedSrcValid, k.pafUnifiedSrcDensity,
      k.panDstValid, k.pafDstDensity }
    \cup { k.bandSrcValid[i] : i \in 1..Len(k.bandSrcValid) }

\* GDALWarpKernel::~GDALWarpKernel(): the mask planes go with the descriptor.
DestroyKernel(k, mem) == FreeAll(mem, KernelMasks(k) \ {NULL})

\* The cleanup loop over papabySrcImage and the two CPLFree calls.
\* A faulty variant of the cleanup: only the two pointer arrays are freed.
FreeOnlyBandArrays(k, mem) ==
    FreeAll(mem, { k.papabySrcImage, k.papabyDstImage } \ {NULL})

FreeKernelBuffers(k, mem) ==
    FreeAll(mem, ({ k.srcImage[i] : i \in 1..Len(k.srcImage) }
                  \cup { k.papabySrcImage, k.papabyDstImage }) \ {NULL})

(***************************************************************************)
(* String option helpers used by WarpRegion.                               *)
(***************************************************************************)
\* CSLFetchNameValue on a list of <<name, value>> pairs.
CSLFetchNameValue(papszStrList, pszName) ==
    LET hits == { i \in 1..Len(papszStrList) : papszStrList[i][1] = pszName }
    IN  IF hits = { } THEN NULL ELSE Ptr(papszStrList[SetMin(hits)][2])

\* CPLStringToComplex on the literals the model uses: <<real, imag>>.
CPLStringToComplex(pszString) ==
    CASE pszString = "500" -> <<500 * ValueSteps, 0>>
      [] pszString = "-7" -> <<-7 * ValueSteps, 0>>
      [] pszString = "3.5,2.0" -> <<(7 * ValueSteps) \div 2, 2 * ValueSteps>>
      [] OTHER -> <<0, 0>>

\* EQUAL( a, b ) of the port library.
EQUAL(a, b) == a = b

\* (int) d of a value d given in 1/ValueSteps: the fraction is dropped.
IntCast(d) == IF d >= 0 THEN d \div ValueSteps ELSE - ((- d) \div ValueSteps)

\* GDALCopyWords from one word of type GDT_Float64 or GDT_CFloat64 to words
\* of a floating point type: the value held by every destination word.  A
\* real source has no imaginary part and a real destination keeps none.
GDALCopyWords(adfWord, eSrcType, eDstType) ==
    [ real |-> adfWord[1],
      imag |-> IF eSrcType = GDT_CFloat64 /\ eDstType = GDT_CFloat64
               THEN adfWord[2] ELSE 0 ]

\* A faulty variant of the fill: the byte value is cut at 255 only.
InitFillNoLowerClamp(o, adfInitRealImag) ==
    IF o.eWorkingDataType = GDT_Byte
    THEN [how |-> "memset", real |-> MIN(255, IntCast(adfInitRealImag[1])),
          imag |-> 0]
    ELSE [how |-> "GDT_CFloat64", real |-> adfInitRealImag[1],
          imag |-> adfInitRealImag[2]]

\* adfInitRealImag for band iBand; adfImag is the imaginary no-data array
\* as read (the code does not check padfDstNoDataImag).
InitRealImag(o, pszInitDest, iBand, adfImag) ==
    IF EQUAL(pszInitDest, "NO_DATA") /\ o.padfDstNoDataReal # NULL
    THEN << Deref(o.padfDstNoDataReal)[iBand + 1], adfImag[iBand + 1] >>
    ELSE CPLStringToComplex(pszInitDest)

\* How band plane iBand is filled from adfInitRealImag: by memset with a
\* byte, or by GDALCopyWords from a real or a complex word.
InitFill(o, adfInitRealImag) ==
    IF o.eWorkingDataType = GDT_Byte
    THEN [how |-> "memset",
          real |-> MAX(0, MIN(255, IntCast(adfInitRealImag[1]))),
          imag |-> 0]
    ELSE IF adfInitRealImag[1] = 0 /\ adfInitRealImag[2] = 0
    THEN [how |-> "memset", real |-> 0, imag |-> 0]
    ELSE IF adfInitRealImag[2] = 0
    THEN [how |-> "GDT_Float64", real |-> adfInitRealImag[1], imag |-> 0]
    ELSE [how |-> "GDT_CFloat64", real |-> adfInitRealImag[1],
          imag |-> adfInitRealImag[2]]

\* What every pixel of the band plane holds after the fill, in 1/ValueSteps.
PlaneValue(o, fill) ==
    IF fill.how = "memset"
    THEN [real |-> fill.real * ValueSteps, imag |-> 0]
    ELSE GDALCopyWords(<<fill.real, fill.imag>>,
                       IF fill.how = "GDT_Float64" THEN GDT_Float64
                       ELSE GDT_CFloat64,
                       o.eWorkingDataType)

(***************************************************************************)
(* The operation object: ChunkAndWarpImage, WarpRegion, WarpRegionToBuffer *)
(* step by step.  Raster I/O, VSIMalloc, the no-data masker and the kernel *)
(* succeed or fail as the environment decides.                             *)
(***************************************************************************)
MaxCallDepth == 12       \* frames of ChunkAndWarpImage the model follows

DstRects ==
    { [nDstXOff |-> dx, nDstYOff |-> dy, nDstXSize |-> dw, nDstYSize |-> dh] :
        dx \in 0..MaxDstOff, dy \in {0}, dw \in 1..MaxDstSize, dh \in 1..MaxDstSize }

holderVars ==
    <<psOptions, eErrLast, lastCall, topRect, swArgs, swResult, maskCall,
      psInitArg,
      noted>>
progressVars == <<dfProgressBase, dfProgressScale>>
memVars == <<heap, nAllocs>>

Running == pc = "running"
InFrame(state) == Running /\ wr = NULL /\ stack # << >> /\ Top.state = state
InRegion(state) == Running /\ wr # NULL /\ Deref(wr).state = state

\* One activation of WarpRegion, with the WarpRegionToBuffer call it makes.
\* nIoBefore and nKernelBefore remember how long the logs were on entry.
NewRegion(rect, win) ==
    [ state |-> "wr_alloc", rect |-> rect, win |-> win, eErr |-> CE_None,
      iBand |-> 0, i |-> 0, pDstBuffer |-> NULL, nBandSize |-> 0,
      dstInit |-> << >>, oWK |-> NewKernel,
      nIoBefore |-> Len(trace.io), nKernelBefore |-> Len(trace.kernel) ]

Logged(field, event) == [trace EXCEPT ![field] = Append(@, event)]
IoEvent(op, iBand, bOK) == [op |-> op, iBand |-> iBand, bOK |-> bOK]
ErrOf(bOK) == IF bOK THEN CE_None ELSE CE_Failure

\* WarpRegion returns eErr to the ChunkAndWarpImage frame that called it.
RegionReturns(eErr) ==
    /\ wr' = NULL
    /\ stack' = WithTop(Returned(Top, eErr))

\* The application calls ChunkAndWarpImage( rect ).
StartChunkAndWarpImage ==
    /\ pc = "idle"
    /\ \E rect \in DstRects :
         /\ topRect' = rect
         /\ IF psOptions = NULL
            THEN /\ pc' = "crashed"
                 /\ stack' = << >>
                 /\ trace' = NoTrace
            ELSE /\ pc' = "running"
                 /\ stack' = << Frame(rect) >>
                 /\ trace' = [NoTrace EXCEPT !.dfEntryBase = dfProgressBase,
                                             !.dfEntryScale = dfProgressScale]
    /\ lastCall' = "ChunkAndWarpImage"
    /\ nAllocs' = 0
    /\ UNCHANGED <<psOptions, eErrLast, swArgs, swResult, maskCall, psInitArg, noted,
                   progressVars, wr, heap>>

\* Lines 447-551 of one ChunkAndWarpImage call, up to its first call out.
CW_Estimate ==
    /\ InFrame("enter")
    /\ \E o \in { Deref(psOptions) }, rect \in { Top.rect } :
       \E r \in { ComputeSourceWindow(o, rect.nDstXOff, rect.nDstYOff,
                                      rect.nDstXSize, rect.nDstYSize,
                                      NoWindow) } :
           IF r.eErr # CE_None
           THEN /\ stack' = WithTop(Returned(Top, r.eErr))
                /\ UNCHANGED <<progressVars, wr, trace>>
           ELSE IF MustSplit(o, rect, r.win)
           THEN /\ Len(stack) < MaxCallDepth
                /\ stack' = Append(
                       WithTop([Top EXCEPT !.state = "first",
                                           !.win = r.win,
                                           !.dfSaveBase = dfProgressBase,
                                           !.dfSaveScale = dfProgressScale]),
                       Frame(LowerChunk(rect)))
                /\ dfProgressScale' = HalvedScale(dfProgressScale)
                /\ UNCHANGED <<dfProgressBase, wr, trace>>
           ELSE /\ stack' = WithTop([Top EXCEPT !.state = "leaf",
                                               !.win = r.win])
                /\ wr' = Ptr(NewRegion(rect, r.win))
                /\ trace' = Logged("leaves",
                       [rect |-> rect, win |-> r.win,
                        nTotalBits |-> TotalMemoryUseInBits(o, rect, r.win)])
                /\ UNCHANGED progressVars
    /\ UNCHANGED <<holderVars, pc, memVars>>

\* The first recursive call has returned.
CW_AfterFirst ==
    /\ InFrame("done")
    /\ Len(stack) >= 2
    /\ Parent.state = "first"
    /\ IF Top.eErr = CE_None
       THEN /\ dfProgressBase' = AdvancedBase(dfProgressBase, dfProgressScale)
            /\ UNCHANGED dfProgressScale
            /\ stack' = [stack EXCEPT
                           ![Len(stack) - 1] = [Parent EXCEPT !.state = "second"],
                           ![Len(stack)] = Frame(UpperChunk(Parent.rect))]
       ELSE LET p == RestoredProgress(Parent, dfProgressBase, dfProgressScale)
            IN  /\ dfProgressBase' = p.dfProgressBase
                /\ dfProgressScale' = p.dfProgressScale
                /\ stack' = Append(SubSeq(stack, 1, Len(stack) - 2),
                                   Returned(Parent, Top.eErr))
    /\ UNCHANGED <<holderVars, pc, wr, memVars, trace>>

\* The second recursive call has returned.
CW_AfterSecond ==
    /\ InFrame("done")
    /\ Len(stack) >= 2
    /\ Parent.state = "second"
    /\ LET p == RestoredProgress(Parent, dfProgressBase, dfProgressScale)
       IN  /\ dfProgressBase' = p.dfProgressBase
           /\ dfProgressScale' = p.dfProgressScale
    /\ stack' = Append(SubSeq(stack, 1, Len(stack) - 2),
                       Returned(Parent, Top.eErr))
    /\ UNCHANGED <<holderVars, pc, wr, memVars, trace>>

\* The outermost call returns to the application.
CW_Return ==
    /\ InFrame("done")
    /\ Len(stack) = 1
    /\ pc' = "idle"
    /\ eErrLast' = Top.eErr
    /\ stack' = << >>
    /\ UNCHANGED <<psOptions, lastCall, topRect, swArgs, swResult, maskCall, psInitArg,
                   noted, progressVars,
                   wr, memVars, trace>>

(***************************************************************************)
(* WarpRegion.                                                             *)
(***************************************************************************)
WordSize(o) == GDALGetDataTypeSize(o.eWorkingDataType) \div 8

\* A faulty variant: the destination is read whatever INIT_DEST says.
AlwaysReadsDst(o, pszInitDest) ==
    IF 0 < o.nBandCount THEN "wr_read" ELSE "wrb_enter"

\* Where WarpRegion continues after the INIT_DEST block: the destination
\* bands are read only if the option is absent.
AfterInitDest(o, pszInitDest) ==
    IF pszInitDest = NULL /\ 0 < o.nBandCount THEN "wr_read" ELSE "wrb_enter"

\* Allocate the output buffer and look up INIT_DEST.
WR_AllocDst ==
    /\ InRegion("wr_alloc")
    /\ \E bMallocOK \in BOOLEAN :
         LET c == Deref(wr)
             o == Deref(psOptions)
             nBandSize == WordSize(o) * c.rect.nDstXSize * c.rect.nDstYSize
             mem == Malloc(Mem(heap, nAllocs), "pDstBuffer",
                           nBandSize * o.nBandCount, -1)
             pszInitDest == CSLFetchNameValue(o.papszWarpOptions, "INIT_DEST")
         IN  IF ~ bMallocOK
             THEN /\ RegionReturns(CE_Failure)
                  /\ UNCHANGED memVars
             ELSE /\ heap' = mem.heap
                  /\ nAllocs' = mem.nAllocs
                  /\ wr' = Ptr([c EXCEPT
                          !.pDstBuffer = LastBlock(mem),
                          !.nBandSize = nBandSize,
                          !.iBand = 0,
                          !.state = IF pszInitDest # NULL THEN "wr_init"
                                    ELSE AfterInitDest(o, pszInitDest)])
                  /\ UNCHANGED stack
    /\ UNCHANGED <<holderVars, progressVars, pc, trace>>

\* The INIT_DEST loop over the bands.  With NO_DATA and a destination real
\* no-data array the imaginary array is read unchecked: through a null
\* pointer the read traps or yields some value.
WR_InitDest ==
    /\ InRegion("wr_init")
    /\ LET c == Deref(wr)
           o == Deref(psOptions)
           pszFetched == CSLFetchNameValue(o.papszWarpOptions, "INIT_DEST")
           pszInitDest == Deref(pszFetched)
           bNullRead == /\ pszInitDest = "NO_DATA"
                        /\ o.padfDstNoDataReal # NULL
                        /\ o.padfDstNoDataImag = NULL
                        /\ 0 < o.nBandCount
           imags == IF bNullRead
                    THEN { [i \in 1..o.nBandCount |-> v] : v \in {0, 1} }
                    ELSE IF o.padfDstNoDataImag = NULL THEN { << >> }
                    ELSE { Deref(o.padfDstNoDataImag) }
       IN  \E adfImag \in imags, bTrap \in {FALSE, bNullRead} :
             IF bTrap
             THEN /\ pc' = "crashed"
                  /\ UNCHANGED wr
             ELSE /\ wr' = Ptr([c EXCEPT
                          !.dstInit = [b \in 1..o.nBandCount |->
                              PlaneValue(o,
                                  InitFill(o, InitRealImag(o, pszInitDest,
                                                           b - 1, adfImag)))],
                          !.state = AfterInitDest(o, pszFetched)])
                  /\ UNCHANGED pc
    /\ UNCHANGED <<holderVars, progressVars, stack, memVars, trace>>

\* One iteration of the loop reading the destination bands.
WR_ReadDst ==
    /\ InRegion("wr_read")
    /\ \E bOK \in BOOLEAN :
         LET c == Deref(wr)
             o == Deref(psOptions)
         IN  /\ trace' = Logged("io", IoEvent("ReadDst", c.iBand, bOK))
             /\ IF bOK
                THEN /\ wr' = Ptr([c EXCEPT
                            !.iBand = c.iBand + 1,
                            !.state = IF c.iBand + 1 < o.nBandCount
                                      THEN "wr_read" ELSE "wrb_enter"])
                     /\ UNCHANGED <<stack, memVars>>
                ELSE /\ heap' = Free(Mem(heap, nAllocs), c.pDstBuffer).heap
                     /\ UNCHANGED nAllocs
                     /\ RegionReturns(CE_Failure)
    /\ UNCHANGED <<holderVars, progressVars, pc>>

\* One iteration of the loop writing the destination bands.
WR_WriteDst ==
    /\ InRegion("wr_write")
    /\ \E bOK \in BOOLEAN :
         LET c == Deref(wr)
             o == Deref(psOptions)
         IN  /\ trace' = Logged("io", IoEvent("WriteDst", c.iBand, bOK))
             /\ wr' = Ptr([c EXCEPT
                    !.iBand = c.iBand + 1,
                    !.eErr = ErrOf(bOK),
                    !.state = IF c.iBand + 1 < o.nBandCount /\ bOK
                              THEN "wr_write" ELSE "wr_free"])
    /\ UNCHANGED <<holderVars, progressVars, pc, stack, memVars>>

\* Cleanup and return.
WR_Free ==
    /\ InRegion("wr_free")
    /\ heap' = Free(Mem(heap, nAllocs), Deref(wr).pDstBuffer).heap
    /\ RegionReturns(Deref(wr).eErr)
    /\ UNCHANGED <<holderVars, progressVars, pc, nAllocs, trace>>

(***************************************************************************)
(* WarpRegionToBuffer.                                                     *)
(***************************************************************************)
\* A faulty variant: the bands are written whatever WarpRegionToBuffer
\* returned.
AfterBufferAlwaysWrites(o, eErr) ==
    IF 0 < o.nBandCount THEN "wr_write" ELSE "wr_free"

\* A faulty variant of the loop condition: a failed band does not end the
\* loop.
SrcLoopIgnoresError(o, i, eErr) == i < o.nBandCount

\* The condition of the loop over the source bands.
SrcLoopContinues(o, i, eErr) == i < o.nBandCount /\ eErr = CE_None

\* Where WarpRegion continues after WarpRegionToBuffer returned eErr.
AfterBuffer(o, eErr) ==
    IF eErr = CE_None /\ 0 < o.nBandCount THEN "wr_write" ELSE "wr_free"

\* Resolve the source window, fill in the descriptor, allocate the array of
\* source band pointers.
WRB_Enter ==
    /\ InRegion("wrb_enter")
    /\ LET c == Deref(wr)
           o == Deref(psOptions)
           r == IF c.win.nSrcXSize = 0 /\ c.win.nSrcYSize = 0
                THEN ComputeSourceWindow(o, c.rect.nDstXOff, c.rect.nDstYOff,
                         c.rect.nDstXSize, c.rect.nDstYSize, c.win)
                ELSE [eErr |-> CE_None, win |-> c.win]
           mem == Malloc(Mem(heap, nAllocs), "papabySrcImage", o.nBandCount, 0)
       IN  IF r.eErr # CE_None
           THEN /\ wr' = Ptr([c EXCEPT !.eErr = r.eErr,
                                       !.state = AfterBuffer(o, r.eErr)])
                /\ UNCHANGED memVars
           ELSE /\ heap' = mem.heap
                /\ nAllocs' = mem.nAllocs
                /\ wr' = Ptr([c EXCEPT
                       !.win = r.win,
                       !.i = 0,
                       !.oWK = [NewKernel EXCEPT
                            !.nBands = o.nBandCount,
                            !.dfProgressBase = dfProgressBase,
                            !.dfProgressScale = dfProgressScale,
                            !.nSrcXSize = r.win.nSrcXSize,
                            !.nSrcYSize = r.win.nSrcYSize,
                            !.nDstXSize = c.rect.nDstXSize,
                            !.nDstYSize = c.rect.nDstYSize,
                            !.papabySrcImage = LastBlock(mem),
                            !.srcImage = [b \in 1..o.nBandCount |-> NULL]],
                       !.state = IF 0 < o.nBandCount THEN "wrb_src"
                                 ELSE "wrb_dst"])
    /\ UNCHANGED <<holderVars, progressVars, pc, stack, trace>>

\* One iteration of the loop allocating and reading the source bands.
WRB_ReadSrc ==
    /\ InRegion("wrb_src")
    /\ \E bMallocOK \in BOOLEAN, bReadOK \in BOOLEAN :
         LET c == Deref(wr)
             o == Deref(psOptions)
             mem == IF bMallocOK
                    THEN Malloc(Mem(heap, nAllocs), "papabySrcImage[i]",
                                WordSize(o) * c.win.nSrcXSize * c.win.nSrcYSize, -1)
                    ELSE Mem(heap, nAllocs)
             eErr == IF bMallocOK THEN ErrOf(bReadOK) ELSE CE_Failure
         IN  /\ bMallocOK \/ bReadOK
             /\ heap' = mem.heap
             /\ nAllocs' = mem.nAllocs
             /\ trace' = IF bMallocOK
                         THEN Logged("io", IoEvent("ReadSrc", c.i, bReadOK))
                         ELSE trace
             /\ wr' = Ptr([c EXCEPT
                    !.oWK.srcImage[c.i + 1] =
                        IF bMallocOK THEN LastBlock(mem) ELSE NULL,
                    !.eErr = eErr,
                    !.i = c.i + 1,
                    !.state = IF SrcLoopContinues(o, c.i + 1, eErr)
                              THEN "wrb_src" ELSE "wrb_dst"])
    /\ UNCHANGED <<holderVars, progressVars, pc, stack>>

\* Allocate the array of destination band pointers and wire it.
WRB_SetupDst ==
    /\ InRegion("wrb_dst")
    /\ LET c == Deref(wr)
           o == Deref(psOptions)
           mem == Malloc(Mem(heap, nAllocs), "papabyDstImage", o.nBandCount, 0)
       IN  /\ heap' = mem.heap
           /\ nAllocs' = mem.nAllocs
           /\ wr' = Ptr([c EXCEPT
                  !.oWK.papabyDstImage = LastBlock(mem),
                  !.i = 0,
                  !.state = IF c.eErr # CE_None THEN "wrb_cleanup"
                            ELSE IF o.padfSrcNoDataReal # NULL /\ 0 < o.nBandCount
                            THEN "wrb_mask"
                            ELSE "wrb_warp"])
    /\ UNCHANGED <<holderVars, progressVars, pc, stack, trace>>

\* One iteration of the source no-data loop: create the band mask, run the
\* no-data masker on it.
WRB_Mask ==
    /\ InRegion("wrb_mask")
    /\ \E bMallocOK \in BOOLEAN, bMaskerOK \in BOOLEAN :
         LET c == Deref(wr)
             o == Deref(psOptions)
             r == CreateKernelMask(c.oWK, Mem(heap, nAllocs), c.i,
                                   "BandSrcValid", bMallocOK)
             eErr == IF r.eErr = CE_None THEN ErrOf(bMaskerOK) ELSE r.eErr
         IN  /\ bMallocOK \/ bMaskerOK
             /\ heap' = r.mem.heap
             /\ nAllocs' = r.mem.nAllocs
             /\ trace' = Logged("io", IoEvent("Mask", c.i, eErr = CE_None))
             /\ wr' = Ptr([c EXCEPT
                    !.oWK = r.oWK,
                    !.eErr = eErr,
                    !.i = c.i + 1,
                    !.state = IF eErr # CE_None THEN "wrb_cleanup"
                              ELSE IF c.i + 1 < o.nBandCount THEN "wrb_mask"
                              ELSE "wrb_warp"])
    /\ UNCHANGED <<holderVars, progressVars, pc, stack>>

\* oWK.PerformWarp()
WRB_PerformWarp ==
    /\ InRegion("wrb_warp")
    /\ \E bOK \in BOOLEAN :
         LET c == Deref(wr)
         IN  /\ trace' = Logged("kernel",
                    [dfProgressBase |-> c.oWK.dfProgressBase,
                     dfProgressScale |-> c.oWK.dfProgressScale,
                     rect |-> c.rect, bOK |-> bOK])
             /\ wr' = Ptr([c EXCEPT !.eErr = ErrOf(bOK),
                                    !.state = "wrb_cleanup"])
    /\ UNCHANGED <<holderVars, progressVars, pc, stack, memVars>>

\* Free the source buffers and both pointer arrays; the descriptor goes out
\* of scope; WarpRegion goes on with the returned eErr.
WRB_Cleanup ==
    /\ InRegion("wrb_cleanup")
    /\ LET c == Deref(wr)
           o == Deref(psOptions)
           mem == DestroyKernel(c.oWK,
                      FreeKernelBuffers(c.oWK, Mem(heap, nAllocs)))
       IN  /\ heap' = mem.heap
           /\ wr' = Ptr([c EXCEPT !.oWK = NewKernel,
                                  !.iBand = 0,
                                  !.state = AfterBuffer(o, c.eErr)])
    /\ UNCHANGED <<holderVars, progressVars, pc, stack, nAllocs, trace>>

(***************************************************************************)
(* Spec: one operation object driven by an application that initializes,  *)
(* wipes and warps windows of DstRects.                                   *)
(***************************************************************************)
\* Transformers that scale by 100 (a 2x2 chunk fits the smallest budget) and
\* by 400 (no chunk fits it), and that fail on one side of the destination.
ChunkTransformers ==
    { IdentityTransformer,
      TransformerArg(100, 0, 0, Never, - Never, FALSE),
      TransformerArg(400, 6, 0, Never, - Never, FALSE),
      TransformerArg(100, 0, 0, 2, - Never, FALSE),
      TransformerArg(100, 0, 0, Never, 3, FALSE),
      TransformerArg(1, 0, 0, Never, - Never, TRUE) }

ChunkProfiles ==
    { BaseOptions,
      [BaseOptions EXCEPT
          !.padfSrcNoDataReal = Ptr(<<0, 7>>), !.padfSrcNoDataImag = Ptr(<<0, 0>>),
          !.padfDstNoDataReal = Ptr(<<0, 7>>), !.padfDstNoDataImag = Ptr(<<0, 0>>),
          !.papszWarpOptions = << <<"INIT_DEST", "NO_DATA">> >>] }

\* Records with INIT_DEST: byte, real and complex working types, plain and
\* complex values, NO_DATA with and without destination no-data values.
InitDestRecords ==
    { [BaseOptions EXCEPT !.eWorkingDataType = eType,
                          !.papszWarpOptions = << <<"INIT_DEST", pszValue>> >>] :
        eType \in {GDT_Byte, GDT_Float64, GDT_CFloat64},
        pszValue \in {"500", "-7", "3.5,2.0", "0", "NO_DATA"} }
    \cup
    { [BaseOptions EXCEPT
          !.eWorkingDataType = eType,
          !.padfDstNoDataReal = Ptr(<<0, 7>>),
          !.padfDstNoDataImag = Ptr(<<0, 2 * ValueSteps>>),
          !.papszWarpOptions = << <<"INIT_DEST", "NO_DATA">> >>] :
        eType \in {GDT_Float64, GDT_CFloat64} }

WarpOptionRecords ==
    { [prof EXCEPT !.pTransformerArg = arg] :
        prof \in ChunkProfiles, arg \in ChunkTransformers }
    \cup { [BaseOptions EXCEPT !.dfWarpMemoryLimit = 99999],
           [BaseOptions EXCEPT !.dfWarpMemoryLimit = 0] }
    \cup InitDestRecords

Initialize == InitializeFrom(WarpOptionRecords) /\ UNCHANGED noted

ChunkSteps ==
    \/ CW_Estimate \/ CW_AfterFirst \/ CW_AfterSecond \/ CW_Return
    \/ WR_AllocDst \/ WR_InitDest \/ WR_ReadDst \/ WR_WriteDst \/ WR_Free
    \/ WRB_Enter \/ WRB_ReadSrc \/ WRB_SetupDst \/ WRB_Mask
    \/ WRB_PerformWarp \/ WRB_Cleanup

Next == Initialize \/ WipeOptions \/ StartChunkAndWarpImage \/ ChunkSteps

Spec == Init /\ [][Next]_vars

(***************************************************************************)
(* TermSpec: one ChunkAndWarpImage call on an initialized operation, from *)
(* the state in which the call has just been entered.  The call is        *)
(* sequential code: it keeps executing until it returns.                  *)
(***************************************************************************)
\* The options a successful Initialize( psNew ) leaves held.
HeldBy(psNew) ==
    { r.ps : r \in InitializeOutcomes(NULL, psNew) } \ {NULL}

TermInit ==
    /\ psInitArg \in { Ptr(new) : new \in WarpOptionRecords }
    /\ psOptions \in HeldBy(psInitArg)
    /\ noted = NULL
    /\ topRect \in DstRects
    /\ stack = << Frame(topRect) >>
    /\ pc = "running"
    /\ dfProgressBase = 0
    /\ dfProgressScale = ProgressOne
    /\ eErrLast = CE_None
    /\ lastCall = "ChunkAndWarpImage"
    /\ wr = NULL
    /\ heap = { }
    /\ nAllocs = 0
    /\ trace = [NoTrace EXCEPT !.dfEntryBase = 0, !.dfEntryScale = ProgressOne]
    /\ swArgs = NULL
    /\ swResult = NULL
    /\ maskCall = NULL

TermNext == ChunkSteps

TermSpec == TermInit /\ [][TermNext]_vars /\ WF_vars(TermNext)

(***************************************************************************)
(* SWSpec: ComputeSourceWindow alone.  The initial state draws the        *)
(* destination window, the resampling algorithm and the transformer; the  *)
(* one action runs the estimator on an initialized operation.             *)
(***************************************************************************)
WindowTransformers ==
    { TransformerArg(nScale, nShift, nFailFirst, Never, - Never, bBatchFail) :
        nScale \in {1, 3},
        nShift \in { 0, 6, - 100 * RatioSteps, (SrcRasterSize - 1) * RatioSteps,
                     (SrcRasterSize + 2) * RatioSteps },
        nFailFirst \in {0, nSamplePoints - 10, nSamplePoints - 9, nSamplePoints},
        bBatchFail \in BOOLEAN }

WindowInputs ==
    { [ o |-> [BaseOptions EXCEPT !.eResampleAlg = alg, !.pTransformerArg = arg],
        nDstXOff |-> dx, nDstYOff |-> dy, nDstXSize |-> dw, nDstYSize |-> dh,
        win |-> [nSrcXOff |-> -1, nSrcYOff |-> -1, nSrcXSize |-> -1, nSrcYSize |-> -1] ] :
        alg \in {GRA_NearestNeighbour, GRA_Bilinear, GRA_Cubic},
        arg \in WindowTransformers,
        dx \in {0, 1}, dy \in {0}, dw \in {1, 2}, dh \in {1, 2} }

SWInit ==
    /\ swArgs \in { Ptr(a) : a \in WindowInputs }
    /\ swResult = NULL
    /\ maskCall = NULL
    /\ psOptions = Ptr(Deref(swArgs).o)
    /\ dfProgressBase = 0
    /\ dfProgressScale = ProgressOne
    /\ pc = "idle"
    /\ eErrLast = CE_None
    /\ lastCall = "Initialize"
    /\ stack = << >>
    /\ wr = NULL
    /\ heap = { }
    /\ nAllocs = 0
    /\ trace = NoTrace
    /\ topRect = NoRect
    /\ psInitArg = psOptions
    /\ noted = NULL

RunComputeSourceWindow ==
    /\ swArgs # NULL
    /\ swResult = NULL
    /\ LET a == Deref(swArgs)
       IN  swResult' = Ptr(ComputeSourceWindow(Deref(psOptions), a.nDstXOff,
                               a.nDstYOff, a.nDstXSize, a.nDstYSize, a.win))
    /\ UNCHANGED <<psOptions, dfProgressBase, dfProgressScale, pc, eErrLast,
                   lastCall, stack, wr, heap, nAllocs, trace, topRect, swArgs,
                   psInitArg, noted, maskCall>>

SWNext == RunComputeSourceWindow

SWSpec == SWInit /\ [][SWNext]_vars

(***************************************************************************)
(* Claims about the options holder, checked under OptSpec.                 *)
(***************************************************************************)
InitializeSucceeded ==
    pc = "idle" /\ lastCall = "Initialize" /\ eErrLast = CE_None

KnownRasterType(eType) == eType >= 1 /\ eType < GDT_TypeCount

\* The band mapping of argument a as Initialize completes it: the identity
\* on both sides when a gives no band and the datasets have equally many.
GivesNoMapping(a) ==
    /\ a.nBandCount = 0
    /\ a.hSrcDS # NULL /\ a.hDstDS # NULL
    /\ Deref(a.hSrcDS).nBands = Deref(a.hDstDS).nBands
MappedCount(a) ==
    IF GivesNoMapping(a) THEN Deref(a.hSrcDS).nBands ELSE a.nBandCount
MappedSrc(a) ==
    IF GivesNoMapping(a) THEN Ptr([i \in 1..MappedCount(a) |-> i])
    ELSE a.panSrcBands
MappedDst(a) ==
    IF GivesNoMapping(a) THEN Ptr([i \in 1..MappedCount(a) |-> i])
    ELSE a.panDstBands
BudgetAfterDefault(a) ==
    IF a.dfWarpMemoryLimit = 0 THEN 67108864 ELSE a.dfWarpMemoryLimit

SrcBandOutOfRange(a) ==
    /\ MappedSrc(a) # NULL /\ a.hSrcDS # NULL
    /\ \E i \in 1..MappedCount(a) :
          \/ Deref(MappedSrc(a))[i] < 1
          \/ Deref(MappedSrc(a))[i] > Deref(a.hSrcDS).nBands
DstBandOutOfRange(a) ==
    /\ MappedDst(a) # NULL /\ a.hDstDS # NULL
    /\ \E i \in 1..MappedCount(a) :
          \/ Deref(MappedDst(a))[i] < 1
          \/ Deref(MappedDst(a))[i] > Deref(a.hDstDS).nBands
DstBandReadOnly(a) ==
    /\ MappedDst(a) # NULL /\ a.hDstDS # NULL
    /\ \E i \in 1..MappedCount(a) :
          /\ Deref(MappedDst(a))[i] \in 1..Deref(a.hDstDS).nBands
          /\ Deref(a.hDstDS).bands[Deref(MappedDst(a))[i]].eAccess = GA_ReadOnly

\* The rejection conditions claim C11 lists.
ListedRejection(a) ==
    \/ SrcBandOutOfRange(a) \/ DstBandOutOfRange(a) \/ DstBandReadOnly(a)
    \/ a.pfnTransformer = NULL \/ a.pfnProgress = NULL
    \/ BudgetAfterDefault(a) < 100000

\* A record that violates no condition on options records.
CleanRecord(a) ==
    /\ ~ ListedRejection(a)
    /\ a.hSrcDS # NULL /\ a.hDstDS # NULL
    /\ MappedCount(a) >= 1 /\ MappedSrc(a) # NULL /\ MappedDst(a) # NULL
    /\ a.eResampleAlg \in {GRA_NearestNeighbour, GRA_Bilinear, GRA_Cubic}
    /\ \/ KnownRasterType(a.eWorkingDataType)
       \/ /\ a.eWorkingDataType = GDT_Unknown
          /\ KnownRasterType(
                 Deref(a.hDstDS).bands[Deref(MappedDst(a))[1]].eDataType)
    /\ (a.padfSrcNoDataReal = NULL <=> a.padfSrcNoDataImag = NULL)
    /\ (a.padfDstNoDataReal = NULL <=> a.padfDstNoDataImag = NULL)

InitializeReturned == pc = "idle" /\ lastCall = "Initialize"

\* C11: Initialize returns failure, holding nothing, for every record with a
\* mapped source or destination band out of range, a mapped read-only
\* destination band, no transformer, no progress function or a budget that
\* after defaulting (0 becomes 67108864) is below 100000; and it accepts every
\* record that violates no condition, then holding the defaulted budget and,
\* when the record gave no mapping and the datasets have equally many bands,
\* the identity mapping on both sides.
C11_ValidationOutcome ==
    InitializeReturned =>
        LET a == Deref(psInitArg)
        IN  /\ ListedRejection(a) => eErrLast = CE_Failure /\ psOptions = NULL
            /\ CleanRecord(a) =>
                  /\ eErrLast = CE_None /\ psOptions # NULL
                  /\ Deref(psOptions).dfWarpMemoryLimit = BudgetAfterDefault(a)
                  /\ Deref(psOptions).nBandCount = MappedCount(a)
                  /\ Deref(psOptions).panSrcBands = MappedSrc(a)
                  /\ Deref(psOptions).panDstBands = MappedDst(a)

\* Initialize has accepted the record that leaves mapping and budget to it.
C11_Witness ==
    /\ InitializeReturned /\ eErrLast = CE_None
    /\ psInitArg = Ptr(DefaultsRecord)
    /\ Deref(psOptions).nBandCount = 2
    /\ Deref(psOptions).dfWarpMemoryLimit = 67108864

\* C12: after any sequence of Initialize and WipeOptions calls the holder
\* owns options exactly when the last call was an Initialize that returned
\* CE_None (so a failed Initialize and a WipeOptions leave it empty, whatever
\* it held before); a successful Initialize leaves held what an earlier
\* successful Initialize with the same argument left held, also across a
\* WipeOptions; and WipeOptions on an empty holder leaves the holder empty
\* and the progress pair alone.
C12_HolderLifecycle ==
    /\ [] ( pc = "idle" =>
              /\ psOptions # NULL <=> InitializeSucceeded
              /\ ( InitializeSucceeded /\ noted # NULL
                     /\ Deref(noted).arg = psInitArg )
                   => psOptions = Deref(noted).held )
    /\ [][ (psOptions = NULL /\ lastCall' = "WipeOptions")
             => /\ psOptions' = NULL
                /\ UNCHANGED <<dfProgressBase, dfProgressScale>> ]_vars

\* Initialize has succeeded with the argument of a remembered Initialize,
\* WipeOptions having run in between.
C12_Witness ==
    /\ InitializeSucceeded
    /\ noted # NULL
    /\ Deref(noted).bWiped
    /\ Deref(noted).arg = psInitArg
    /\ Deref(psInitArg).nBandCount = 0

\* C22: Initialize reads no band mapping entry that is not there: called
\* with a band count of at least 1, no working type, a destination dataset
\* and no panDstBands array, it returns CE_Failure and holds no options.
C22_NoMissingMappingRead ==
    ( /\ lastCall = "Initialize"
      /\ psInitArg # NULL
      /\ Deref(psInitArg).nBandCount >= 1
      /\ Deref(psInitArg).eWorkingDataType = GDT_Unknown
      /\ Deref(psInitArg).hDstDS # NULL
      /\ Deref(psInitArg).panDstBands = NULL )
    => /\ pc = "idle"
       /\ eErrLast = CE_Failure
       /\ psOptions = NULL

\* C8: after any successful Initialize the held working type is a known
\* raster type (1 <= type < GDT_TypeCount); a record whose working type after
\* defaulting is not known is rejected and the holder left empty.
C8_WorkingTypeKnown ==
    InitializeSucceeded =>
        /\ psOptions # NULL
        /\ KnownRasterType(Deref(psOptions).eWorkingDataType)

\* C9: after any successful Initialize the real no-data array is present if
\* and only if the imaginary one is, on the source side and on the destination
\* side alike.
C9_NoDataPartsPaired ==
    InitializeSucceeded =>
        /\ psOptions # NULL
        /\ (Deref(psOptions).padfSrcNoDataReal = NULL
              <=> Deref(psOptions).padfSrcNoDataImag = NULL)
        /\ (Deref(psOptions).padfDstNoDataReal = NULL
              <=> Deref(psOptions).padfDstNoDataImag = NULL)

\* C10: after any successful Initialize the held band count is at least 1.
C10_BandCountPositive ==
    InitializeSucceeded =>
        /\ psOptions # NULL
        /\ Deref(psOptions).nBandCount >= 1


(***************************************************************************)
(* MaskSpec: CreateKernelMask alone, called again and again on one kernel *)
(* descriptor with every mask name, band and allocation outcome.          *)
(***************************************************************************)
MaskKernels ==
    { [NewKernel EXCEPT !.nBands = 2,
                        !.nSrcXSize = sw, !.nSrcYSize = sh,
                        !.nDstXSize = 5, !.nDstYSize = 3] :
        sw \in {1, 3}, sh \in {3} }

MaxMaskAllocs == 4       \* allocations after which no further call is made

MaskTypeArgs == KnownMaskTypes \cup {"SrcValid"}

MaskInit ==
    /\ maskCall = NULL
    /\ psOptions = NULL
    /\ dfProgressBase = 0
    /\ dfProgressScale = ProgressOne
    /\ pc = "idle"
    /\ eErrLast = CE_None
    /\ lastCall = "GDALWarpOperation"
    /\ stack = << >>
    /\ heap = { }
    /\ nAllocs = 0
    /\ trace = NoTrace
    /\ topRect = NoRect
    /\ swArgs = NULL
    /\ swResult = NULL
    /\ psInitArg = NULL
    /\ noted = NULL
    /\ wr \in { Ptr([NewRegion(NoRect, NoWindow) EXCEPT !.oWK = k]) :
                  k \in MaskKernels }

\* CreateKernelMask( &oWK, iBand, pszType ) on the descriptor held.
RunCreateKernelMask ==
    /\ wr # NULL
    /\ nAllocs < MaxMaskAllocs
    /\ \E pszType \in MaskTypeArgs, iBand \in 0..(Deref(wr).oWK.nBands - 1),
          bMallocOK \in BOOLEAN :
         LET k == Deref(wr).oWK
             r == CreateKernelMask(k, Mem(heap, nAllocs), iBand, pszType,
                                   bMallocOK)
         IN  /\ wr' = Ptr([Deref(wr) EXCEPT !.oWK = r.oWK])
             /\ heap' = r.mem.heap
             /\ nAllocs' = r.mem.nAllocs
             /\ maskCall' = Ptr([iBand |-> iBand, pszType |-> pszType,
                                 eErr |-> r.eErr])
    /\ UNCHANGED <<psOptions, dfProgressBase, dfProgressScale, pc, eErrLast,
                   lastCall, stack, trace, topRect, swArgs, swResult,
                   psInitArg, noted>>

MaskNext == RunCreateKernelMask

MaskSpec == MaskInit /\ [][MaskNext]_vars

(***************************************************************************)
(* Claims about CreateKernelMask, checked under MaskSpec.                  *)
(***************************************************************************)
\* The slot a mask name and band select in descriptor k; a band plane of a
\* descriptor without its array of band planes is taken as empty.
SlotOf(k, iBand, pszType) ==
    CASE pszType = "BandSrcValid" ->
            IF k.papanBandSrcValid = NULL THEN NULL
            ELSE k.bandSrcValid[iBand + 1]
      [] pszType = "UnifiedSrcValid" -> k.panUnifiedSrcValid
      [] pszType = "UnifiedSrcDensity" -> k.pafUnifiedSrcDensity
      [] pszType = "DstValid" -> k.panDstValid
      [] pszType = "DstDensity" -> k.pafDstDensity

AllSlots == { <<b, t>> : b \in {0, 1}, t \in KnownMaskTypes }

\* The plane specified for a mask name on descriptor k: its bytes and fill.
SpecifiedPlane(k, pszType) ==
    LET bSrc == pszType \in {"BandSrcValid", "UnifiedSrcValid",
                             "UnifiedSrcDensity"}
        W == IF bSrc THEN k.nSrcXSize ELSE k.nDstXSize
        H == IF bSrc THEN k.nSrcYSize ELSE k.nDstYSize
    IN  IF pszType \in {"UnifiedSrcDensity", "DstDensity"}
        THEN [nBytes |-> W * H * 4, nFill |-> 0]
        ELSE [nBytes |-> - ((- (W * H)) \div 8), nFill |-> 255]

\* C21: CreateKernelMask on a known mask name whose slot holds a plane
\* returns success and changes neither the descriptor nor any block; on an
\* empty slot it puts there a new block of ceil(W*H/8) bytes of 0xFF for a
\* validity plane and of W*H*4 bytes of 0 for a density plane, W and H being
\* the source window for the three source masks and the destination window
\* for the two destination masks (or fails, allocating no plane, when the
\* allocation fails); on an unknown name it returns failure and changes
\* nothing.
C21_MaskIdempotent ==
    [][ maskCall' # NULL /\ wr # NULL /\ wr' # NULL =>
          LET c == Deref(maskCall')
              k == Deref(wr).oWK
              k2 == Deref(wr').oWK
              old == SlotOf(k, c.iBand, c.pszType)
              new == SlotOf(k2, c.iBand, c.pszType)
          IN  IF c.pszType \notin {"BandSrcValid", "UnifiedSrcValid",
                  "UnifiedSrcDensity", "DstValid", "DstDensity"}
              THEN c.eErr = CE_Failure /\ k2 = k /\ heap' = heap
              ELSE IF old # NULL
              THEN c.eErr = CE_None /\ k2 = k /\ heap' = heap
              ELSE /\ heap \subseteq heap'
                   /\ \A s \in AllSlots \ {<<c.iBand, c.pszType>>} :
                         SlotOf(k, s[1], s[2]) # NULL =>
                             SlotOf(k2, s[1], s[2]) = SlotOf(k, s[1], s[2])
                   /\ IF c.eErr = CE_None
                      THEN /\ new # NULL
                           /\ \E b \in heap' \ heap :
                                 /\ b.id = Deref(new)
                                 /\ b.nBytes = SpecifiedPlane(k, c.pszType).nBytes
                                 /\ b.nFill = SpecifiedPlane(k, c.pszType).nFill
                      ELSE /\ c.eErr = CE_Failure
                           /\ new = NULL
                           /\ \A b \in heap' \ heap :
                                 b.what = "papanBandSrcValid" ]_vars

\* A 3x3 source validity plane of 2 bytes of 0xFF exists and the last call,
\* on another name whose plane existed, returned success.
C21_Witness ==
    /\ maskCall # NULL
    /\ Deref(maskCall).pszType = "DstDensity"
    /\ Deref(maskCall).eErr = CE_None
    /\ Deref(wr).oWK.nSrcXSize = 3 /\ Deref(wr).oWK.nSrcYSize = 3
    /\ Deref(wr).oWK.panUnifiedSrcValid # NULL
    /\ \E b \in heap :
          /\ b.id = Deref(Deref(wr).oWK.panUnifiedSrcValid)
          /\ b.nBytes = 2 /\ b.nFill = 255
    /\ \E b \in heap :
          /\ b.id = Deref(Deref(wr).oWK.pafDstDensity)
          /\ b.nBytes = 60 /\ b.nFill = 0
          /\ b.id < Cardinality(heap)

(***************************************************************************)
(* Claims about the source window estimator, checked under SWSpec.        *)
(***************************************************************************)
WindowReturned == swResult # NULL /\ Deref(swResult).eErr = CE_None

\* What the transformer answered for the sample points of the call made.
Answer ==
    LET a == Deref(swArgs)
    IN  GDALTransform(a.o.pTransformerArg,
                      SamplePoints(a.nDstXOff, a.nDstYOff,
                                   a.nDstXSize, a.nDstYSize))

Flagged == { i \in 1..Len(Answer.abSuccess) : Answer.abSuccess[i] }

\* C13: ComputeSourceWindow returns failure exactly when the transformer
\* reports failure of the whole batch or flags fewer than 10 of the 84 sample
\* points as successful, and on failure it leaves the caller's window as it
\* was.
C13_EstimatorFailure ==
    swResult # NULL =>
        /\ Len(Answer.abSuccess) = 84
        /\ Deref(swResult).eErr = CE_Failure
              <=> (~ Answer.bOK \/ Cardinality(Flagged) < 10)
        /\ Deref(swResult).eErr = CE_Failure
              => Deref(swResult).win = Deref(swArgs).win

\* The estimator succeeded with exactly 10 points flagged successful.
C13_Witness ==
    /\ swResult # NULL
    /\ Deref(swResult).eErr = CE_None
    /\ Cardinality(Flagged) = 10

\* The resampling half-width as specified.
HalfWidth(eResampleAlg) ==
    CASE eResampleAlg = GRA_NearestNeighbour -> 0
      [] eResampleAlg = GRA_Bilinear -> 1
      [] eResampleAlg = GRA_Cubic -> 2

\* The window specified for the samples flagged successful in answer ans:
\* the extremes range over those samples only.
SpecifiedWindow(ans, eResampleAlg, nSrcW, nSrcH) ==
    LET ok == { i \in 1..Len(ans.abSuccess) : ans.abSuccess[i] }
        min_x == SetMin({ ans.adfX[i] : i \in ok })
        max_x == SetMax({ ans.adfX[i] : i \in ok })
        min_y == SetMin({ ans.adfY[i] : i \in ok })
        max_y == SetMax({ ans.adfY[i] : i \in ok })
        r == HalfWidth(eResampleAlg)
        sx == IF min_x \div RatioSteps + r > 0
              THEN min_x \div RatioSteps + r ELSE 0
        sy == IF min_y \div RatioSteps + r > 0
              THEN min_y \div RatioSteps + r ELSE 0
        cx == - ((- max_x) \div RatioSteps) - sx + r
        cy == - ((- max_y) \div RatioSteps) - sy + r
    IN  [ nSrcXOff |-> sx, nSrcYOff |-> sy,
          nSrcXSize |-> IF nSrcW - sx < cx THEN nSrcW - sx ELSE cx,
          nSrcYSize |-> IF nSrcH - sy < cy THEN nSrcH - sy ELSE cy ]

\* C16: when ComputeSourceWindow succeeds its window is
\* (max(0, floor(min_x) + r), max(0, floor(min_y) + r),
\*  min(W - sx, ceil(max_x) - sx + r), min(H - sy, ceil(max_y) - sy + r))
\* with r = 0, 1, 2 for nearest neighbour, bilinear, cubic and the extremes
\* taken over the samples flagged successful only: what a failed sample
\* holds has no influence.
C16_ExactWindow ==
    WindowReturned =>
        \A ans \in {Answer} :
            Deref(swResult).win =
                SpecifiedWindow(ans, Deref(swArgs).o.eResampleAlg,
                    GDALGetRasterXSize(Deref(swArgs).o.hSrcDS),
                    GDALGetRasterYSize(Deref(swArgs).o.hSrcDS))

\* The cubic estimator succeeded on fractional coordinates with 74 failed
\* samples holding other coordinates.
C16_Witness ==
    /\ WindowReturned
    /\ Deref(swArgs).o.eResampleAlg = GRA_Cubic
    /\ Deref(swArgs).o.pTransformerArg.nShiftX = 6
    /\ Deref(swArgs).o.pTransformerArg.nFailFirst = nSamplePoints - 10
    /\ Deref(swResult).win.nSrcXOff = 2 + Deref(swArgs).nDstXOff

\* C6: whenever ComputeSourceWindow returns success the window has
\* non-negative offsets and sizes and lies inside the source raster.
C6_WindowInsideSource ==
    WindowReturned =>
        LET w == Deref(swResult).win
            hSrcDS == Deref(swArgs).o.hSrcDS
        IN  /\ w.nSrcXOff >= 0 /\ w.nSrcYOff >= 0
            /\ w.nSrcXSize >= 0 /\ w.nSrcYSize >= 0
            /\ w.nSrcXOff + w.nSrcXSize <= GDALGetRasterXSize(hSrcDS)
            /\ w.nSrcYOff + w.nSrcYSize <= GDALGetRasterYSize(hSrcDS)


(***************************************************************************)
(* Claims about the chunker and the chunk executors, checked under Spec.  *)
(***************************************************************************)
CallReturned == pc = "idle" /\ lastCall = "ChunkAndWarpImage"
CallSucceeded == CallReturned /\ eErrLast = CE_None
CallFailed == CallReturned /\ eErrLast # CE_None

Pixels(rect) ==
    { <<x, y>> : x \in rect.nDstXOff .. (rect.nDstXOff + rect.nDstXSize - 1),
                 y \in rect.nDstYOff .. (rect.nDstYOff + rect.nDstYSize - 1) }

LeavesCovering(p) ==
    { i \in 1..Len(trace.leaves) : p \in Pixels(trace.leaves[i].rect) }

\* C23: ChunkAndWarpImage on an operation that holds no options returns
\* CE_Failure without calling the transformer, the raster I/O or the kernel.
C23_EmptyHolderFails ==
    (lastCall = "ChunkAndWarpImage" /\ psOptions = NULL)
    => /\ pc = "idle"
       /\ eErrLast = CE_Failure
       /\ trace.leaves = << >> /\ trace.io = << >> /\ trace.kernel = << >>

\* The bytes of the blocks of B, added up.
RECURSIVE SumBytes(_)
SumBytes(B) ==
    IF B = { } THEN 0
    ELSE LET b == CHOOSE x \in B : TRUE
         IN  b.nBytes + SumBytes(B \ {b})

\* The blocks the chunk in progress holds for its destination buffer, its
\* source bands and its band validity planes.
ChunkBlocks ==
    { b \in heap : b.what \in {"pDstBuffer", "papabySrcImage[i]",
                                "BandSrcValid"} }

\* C24: when the kernel is about to run on a chunk executed because its
\* estimated total was within dfWarpMemoryLimit, the bytes allocated for it
\* are word size * dw * dh * bands for the destination buffer, word size *
\* sw * sh for each source band and ceil(sw * sh / 8) for each band validity
\* plane, and together they do not exceed the estimated total.
C24_AllocatedWithinEstimate ==
    ( /\ pc = "running" /\ wr # NULL /\ Deref(wr).state = "wrb_warp"
      /\ trace.leaves[Len(trace.leaves)].nTotalBits
            <= 8 * Deref(psOptions).dfWarpMemoryLimit )
    => LET o == Deref(psOptions)
           c == Deref(wr)
           nWord == GDALGetDataTypeSize(o.eWorkingDataType) \div 8
           nSrc == c.win.nSrcXSize * c.win.nSrcYSize
           nDst == c.rect.nDstXSize * c.rect.nDstYSize
       IN  /\ \A b \in ChunkBlocks :
                 b.nBytes = CASE b.what = "pDstBuffer" ->
                                    nWord * nDst * o.nBandCount
                              [] b.what = "papabySrcImage[i]" -> nWord * nSrc
                              [] b.what = "BandSrcValid" ->
                                    - ((- nSrc) \div 8)
           /\ 8 * SumBytes(ChunkBlocks)
                 <= trace.leaves[Len(trace.leaves)].nTotalBits

\* C1: when ChunkAndWarpImage returns success, the windows handed to
\* WarpRegion tile the requested window: every pixel of it lies in exactly
\* one of them and none of them reaches outside it.
C1_LeavesTileInput ==
    CallSucceeded =>
        /\ \A p \in Pixels(topRect) : Cardinality(LeavesCovering(p)) = 1
        /\ \A i \in 1..Len(trace.leaves) :
               Pixels(trace.leaves[i].rect) \subseteq Pixels(topRect)

\* A successful call that split at least twice.
C1_Witness == CallSucceeded /\ Len(trace.leaves) >= 3

\* C2: every window handed to WarpRegion has an estimated total memory use
\* of at most dfWarpMemoryLimit.
C2_LeavesWithinBudget ==
    psOptions # NULL =>
        \A i \in 1..Len(trace.leaves) :
            trace.leaves[i].nTotalBits <= 8 * Deref(psOptions).dfWarpMemoryLimit

\* C3: when a top-level ChunkAndWarpImage returns, with success or failure,
\* dfProgressBase and dfProgressScale have the values they had on entry.
C3_ProgressRestored ==
    CallReturned =>
        /\ dfProgressBase = trace.dfEntryBase
        /\ dfProgressScale = trace.dfEntryScale

AllStepsSucceeded ==
    /\ \A i \in 1..Len(trace.io) : trace.io[i].bOK
    /\ \A i \in 1..Len(trace.kernel) : trace.kernel[i].bOK

\* A call that failed in the estimator after a split, every chunk executed
\* before it having succeeded.
C3_Witness ==
    /\ CallFailed
    /\ Len(trace.leaves) >= 1
    /\ Len(trace.kernel) = Len(trace.leaves)
    /\ AllStepsSucceeded

\* C4: within one call the (base, scale) pairs handed to the kernel lie in
\* [0, 1], the first base is 0, every later base is the previous base plus
\* the previous scale, and after a successful call the last base plus scale
\* is 1.
C4_KernelProgressContiguous ==
    LET k == trace.kernel
    IN  /\ \A i \in 1..Len(k) :
               /\ 0 <= k[i].dfProgressBase
               /\ k[i].dfProgressBase + k[i].dfProgressScale <= ProgressOne
               /\ i = 1 => k[i].dfProgressBase = 0
               /\ i > 1 => k[i].dfProgressBase =
                              k[i-1].dfProgressBase + k[i-1].dfProgressScale
        /\ CallSucceeded =>
               /\ Len(k) >= 1
               /\ k[Len(k)].dfProgressBase + k[Len(k)].dfProgressScale
                      = ProgressOne

\* A successful call with at least three kernel invocations.
C4_Witness == CallSucceeded /\ Len(trace.kernel) >= 3

\* C5: no block allocated by a chunk outlives the call that allocated it:
\* outside WarpRegion nothing is live, and inside WarpRegion but outside
\* WarpRegionToBuffer only the destination buffer is.
C5_AllocationsReleased ==
    pc # "crashed" =>
        /\ wr = NULL => heap = { }
        /\ wr # NULL /\ Deref(wr).state \in
                 {"wr_alloc", "wr_init", "wr_read", "wrb_enter", "wr_write",
                  "wr_free"}
              => \A b \in heap : Ptr(b.id) = Deref(wr).pDstBuffer

\* A call that failed creating or filling the mask of the second band, the
\* first band's mask being allocated.
C5_Witness ==
    /\ CallFailed
    /\ \E i \in 1..Len(trace.io) :
           trace.io[i] = IoEvent("Mask", 1, FALSE)

\* The two halves of a window split along X or along Y: the lower half has
\* floor(dim/2) pixels and the upper half the rest, starting where the lower
\* half ends; the other dimension is unchanged.
HalvesAlongX(rect) ==
    [low |-> [nDstXOff |-> rect.nDstXOff, nDstYOff |-> rect.nDstYOff,
              nDstXSize |-> rect.nDstXSize \div 2,
              nDstYSize |-> rect.nDstYSize],
     high |-> [nDstXOff |-> rect.nDstXOff + rect.nDstXSize \div 2,
               nDstYOff |-> rect.nDstYOff,
               nDstXSize |-> rect.nDstXSize - rect.nDstXSize \div 2,
               nDstYSize |-> rect.nDstYSize]]
HalvesAlongY(rect) ==
    [low |-> [nDstXOff |-> rect.nDstXOff, nDstYOff |-> rect.nDstYOff,
              nDstXSize |-> rect.nDstXSize,
              nDstYSize |-> rect.nDstYSize \div 2],
     high |-> [nDstXOff |-> rect.nDstXOff,
               nDstYOff |-> rect.nDstYOff + rect.nDstYSize \div 2,
               nDstXSize |-> rect.nDstXSize,
               nDstYSize |-> rect.nDstYSize - rect.nDstYSize \div 2]]

\* The splits along the longer dimension (either one of a square window).
HalvesAlongLonger(rect) ==
    (IF rect.nDstXSize >= rect.nDstYSize THEN {HalvesAlongX(rect)} ELSE { })
    \cup (IF rect.nDstYSize >= rect.nDstXSize THEN {HalvesAlongY(rect)}
          ELSE { })

(***************************************************************************)
(* Claims about one WarpRegion call: what it has logged since its entry.  *)
(***************************************************************************)
InRegionCall == wr # NULL
ChunkIo == SubSeq(trace.io, Deref(wr).nIoBefore + 1, Len(trace.io))
ChunkKernel ==
    SubSeq(trace.kernel, Deref(wr).nKernelBefore + 1, Len(trace.kernel))
OpsOf(log, op) == SelectSeq(log, LAMBDA e : e.op = op)
InitDestGiven ==
    \E i \in 1..Len(Deref(psOptions).papszWarpOptions) :
        Deref(psOptions).papszWarpOptions[i][1] = "INIT_DEST"

\* Bands 0..n-1 of the mapping, each done once, in order, with success.
InMappingOrder(op, n) ==
    [i \in 1..n |-> [op |-> op, iBand |-> i - 1, bOK |-> TRUE]]

\* WarpRegion has called WarpRegionToBuffer.
Dispatched ==
    Deref(wr).state \in {"wrb_enter", "wrb_src", "wrb_dst", "wrb_mask",
                         "wrb_warp", "wrb_cleanup", "wr_write", "wr_free"}

\* The step logs the failure of operation op.
LogsFailureOf(op) ==
    /\ Len(trace'.io) = Len(trace.io) + 1
    /\ trace'.io[Len(trace'.io)].op = op
    /\ ~ trace'.io[Len(trace'.io)].bOK

\* C17: WarpRegion reads the destination exactly when INIT_DEST is absent:
\* with the option no destination band is read; without it the mapped bands
\* are read in mapping order before anything else, WarpRegionToBuffer is
\* called only after all of them were read, and the first failed read makes
\* WarpRegion return failure without a call of WarpRegionToBuffer or the
\* kernel and without a write.
C17_DstReadIffNoInitDest ==
    /\ [](InRegionCall =>
            LET n == Deref(psOptions).nBandCount
            IN  /\ InitDestGiven => OpsOf(ChunkIo, "ReadDst") = << >>
                /\ ~ InitDestGiven /\ Dispatched =>
                      /\ Len(ChunkIo) >= n
                      /\ SubSeq(ChunkIo, 1, n) = InMappingOrder("ReadDst", n)
                      /\ Len(OpsOf(ChunkIo, "ReadDst")) = n
                /\ ~ InitDestGiven /\ ~ Dispatched =>
                      /\ Len(ChunkIo) <= n
                      /\ ChunkIo = InMappingOrder("ReadDst", Len(ChunkIo))
                      /\ ChunkKernel = << >>)
    /\ [][ LogsFailureOf("ReadDst") =>
             /\ ~ Dispatched
             /\ wr' = NULL
             /\ Top'.state = "done" /\ Top'.eErr = CE_Failure
             /\ trace'.kernel = trace.kernel ]_vars

\* Without INIT_DEST both destination bands were read and the kernel is
\* about to run.
C17_Witness ==
    /\ InRegion("wrb_warp")
    /\ ~ InitDestGiven
    /\ Len(ChunkIo) >= 2
    /\ ChunkIo[1] = [op |-> "ReadDst", iBand |-> 0, bOK |-> TRUE]
    /\ ChunkIo[2] = [op |-> "ReadDst", iBand |-> 1, bOK |-> TRUE]

\* WarpRegion returns to ChunkAndWarpImage in this step.
RegionReturning == wr # NULL /\ wr' = NULL

\* C18: WarpRegion writes destination bands only after WarpRegionToBuffer
\* returned success: the kernel ran once and succeeded and no estimation,
\* allocation, read or mask of the chunk failed.  The writes come last, band
\* by band in mapping order, a failed write is the last one, and WarpRegion
\* returns failure after a failed write and success after writing every
\* band.
C18_WriteAfterSuccess ==
    /\ [](InRegionCall =>
            LET writes == OpsOf(ChunkIo, "WriteDst")
                before == SubSeq(ChunkIo, 1, Len(ChunkIo) - Len(writes))
            IN  writes # << >> =>
                  /\ Len(ChunkKernel) = 1 /\ ChunkKernel[1].bOK
                  /\ ChunkIo = before \o writes
                  /\ \A i \in 1..Len(before) :
                        before[i].op # "WriteDst" /\ before[i].bOK
                  /\ Len(writes) <= Deref(psOptions).nBandCount
                  /\ \A i \in 1..Len(writes) :
                        /\ writes[i].iBand = i - 1
                        /\ i < Len(writes) => writes[i].bOK
                  /\ Deref(wr).state \in {"wr_write", "wr_free"})
    /\ [][ LogsFailureOf("WriteDst") =>
             /\ wr' # NULL
             /\ Deref(wr').state = "wr_free"
             /\ Deref(wr').eErr = CE_Failure ]_vars
    /\ [][ RegionReturning =>
             LET writes == OpsOf(ChunkIo, "WriteDst")
                 n == Deref(psOptions).nBandCount
                 bWarped == Len(ChunkKernel) = 1 /\ ChunkKernel[1].bOK
             IN  /\ trace' # trace => LogsFailureOf("ReadDst")
                 /\ bWarped =>
                       IF writes = InMappingOrder("WriteDst", n)
                       THEN Top'.eErr = CE_None
                       ELSE /\ Top'.eErr = CE_Failure
                            /\ writes # << >>
                            /\ ~ writes[Len(writes)].bOK
                 /\ ~ bWarped => Top'.eErr = CE_Failure /\ writes = << >>
           ]_vars

\* After a successful kernel run the write of the first band failed and the
\* second band is not written.
C18_Witness ==
    /\ InRegion("wr_free")
    /\ Len(ChunkKernel) = 1 /\ ChunkKernel[1].bOK
    /\ OpsOf(ChunkIo, "WriteDst")
          = << [op |-> "WriteDst", iBand |-> 0, bOK |-> FALSE] >>
    /\ Deref(wr).eErr = CE_Failure

\* Events of one kind are bands 0..k-1 in order, only the last possibly
\* failed.
UpToFirstFailure(events, n) ==
    /\ Len(events) <= n
    /\ \A i \in 1..Len(events) :
          /\ events[i].iBand = i - 1
          /\ i < Len(events) => events[i].bOK

SrcNoDataGiven == Deref(psOptions).padfSrcNoDataReal # NULL

\* Every source band is read and, with source no-data values, masked.
SourceReady ==
    LET n == Deref(psOptions).nBandCount
    IN  /\ OpsOf(ChunkIo, "ReadSrc") = InMappingOrder("ReadSrc", n)
        /\ OpsOf(ChunkIo, "Mask")
              = IF SrcNoDataGiven THEN InMappingOrder("Mask", n) ELSE << >>

\* Every source band buffer of the kernel descriptor is allocated.
SourceAllocated ==
    \A b \in 1..Deref(psOptions).nBandCount :
        Deref(wr).oWK.srcImage[b] # NULL

\* C19: in one WarpRegionToBuffer call the kernel runs at most once, and
\* only after every source band was allocated and read and, with source
\* no-data values, every band got its BandSrcValid mask from the no-data
\* masker; the bands are taken in order, the first failed allocation, read
\* or mask is the last step of its kind, and after it nothing more is read
\* or masked, the kernel does not run and the call returns failure.
C19_KernelAfterSources ==
    /\ [](InRegionCall =>
            LET n == Deref(psOptions).nBandCount
            IN  /\ Len(ChunkKernel) <= 1
                /\ UpToFirstFailure(OpsOf(ChunkIo, "ReadSrc"), n)
                /\ UpToFirstFailure(OpsOf(ChunkIo, "Mask"), n)
                /\ OpsOf(ChunkIo, "Mask") # << >> =>
                      /\ SrcNoDataGiven
                      /\ OpsOf(ChunkIo, "ReadSrc")
                            = InMappingOrder("ReadSrc", n)
                /\ ChunkKernel # << >> => SourceReady)
    /\ [][ InRegionCall /\ trace'.kernel # trace.kernel =>
             /\ ChunkKernel = << >>
             /\ SourceReady
             /\ SourceAllocated
             /\ Deref(wr).eErr = CE_None
             /\ trace'.io = trace.io ]_vars
    /\ [][ InRegionCall /\ Deref(wr).eErr # CE_None =>
             /\ trace' = trace
             /\ wr' # NULL => Deref(wr').eErr = Deref(wr).eErr
             /\ wr' = NULL => Top'.eErr = CE_Failure ]_vars
    /\ [][ InRegionCall /\ wr' # NULL
             /\ (LogsFailureOf("ReadSrc") \/ LogsFailureOf("Mask"))
           => Deref(wr').eErr = CE_Failure ]_vars

\* The kernel has run after both source bands were read and masked.
C19_Witness ==
    /\ InRegion("wrb_cleanup")
    /\ Len(ChunkKernel) = 1
    /\ SrcNoDataGiven
    /\ OpsOf(ChunkIo, "ReadSrc") = InMappingOrder("ReadSrc", 2)
    /\ OpsOf(ChunkIo, "Mask") = InMappingOrder("Mask", 2)

\* The value of the INIT_DEST option held.
InitDestOption ==
    LET papsz == Deref(psOptions).papszWarpOptions
    IN  papsz[CHOOSE i \in 1..Len(papsz) : papsz[i][1] = "INIT_DEST"][2]

\* The fill pair specified for band b (counted from 1).
SpecifiedPair(b) ==
    LET o == Deref(psOptions)
    IN  IF InitDestOption = "NO_DATA" /\ o.padfDstNoDataReal # NULL
        THEN << Deref(o.padfDstNoDataReal)[b], Deref(o.padfDstNoDataImag)[b] >>
        ELSE CPLStringToComplex(InitDestOption)

\* clamp(int(d), 0, 255) of a value d in 1/ValueSteps.
ClampedByte(d) ==
    IF d < 0 THEN 0
    ELSE IF d \div ValueSteps > 255 THEN 255
    ELSE d \div ValueSteps

\* The pixel value specified for a fill pair, in 1/ValueSteps.
SpecifiedPixel(eType, pair) ==
    IF eType = GDT_Byte
    THEN [real |-> ClampedByte(pair[1]) * ValueSteps, imag |-> 0]
    ELSE IF pair[1] = 0 /\ pair[2] = 0 THEN [real |-> 0, imag |-> 0]
    ELSE IF pair[2] = 0
    THEN GDALCopyWords(<<pair[1], 0>>, GDT_Float64, eType)
    ELSE GDALCopyWords(pair, GDT_CFloat64, eType)

\* C20: with INIT_DEST, from the fill until the kernel runs every pixel of
\* band plane i holds the value specified for the band's fill pair, which is
\* the band's destination no-data pair if the option is NO_DATA and
\* destination no-data values are held, and the complex number parsed from
\* the option otherwise: clamp(int(real), 0, 255) for the byte working type,
\* else zero for the pair (0, 0), else the real part converted to the working
\* type if the imaginary part is 0, else the complex number converted to it.
C20_InitDestFill ==
    ( /\ InRegionCall
      /\ InitDestGiven
      /\ Deref(wr).state \in {"wrb_enter", "wrb_src", "wrb_dst", "wrb_mask",
                              "wrb_warp"} )
    => /\ Len(Deref(wr).dstInit) = Deref(psOptions).nBandCount
       /\ \A b \in 1..Deref(psOptions).nBandCount :
             Deref(wr).dstInit[b]
                = SpecifiedPixel(Deref(psOptions).eWorkingDataType,
                                 SpecifiedPair(b))

\* The kernel is about to run on byte planes filled from INIT_DEST=-7.
C20_Witness ==
    /\ InRegion("wrb_warp")
    /\ InitDestGiven
    /\ InitDestOption = "-7"
    /\ Deref(psOptions).eWorkingDataType = GDT_Byte
    /\ Deref(wr).dstInit[1] = [real |-> 0, imag |-> 0]

\* The walk below takes a square window along Y.
HalfLow(rect) ==
    IF rect.nDstXSize > rect.nDstYSize THEN HalvesAlongX(rect).low
    ELSE HalvesAlongY(rect).low
HalfHigh(rect) ==
    IF rect.nDstXSize > rect.nDstYSize THEN HalvesAlongX(rect).high
    ELSE HalvesAlongY(rect).high

Touches(rect, L) == \E l \in L : Pixels(l) \cap Pixels(rect) # { }
Covers(L, rect) == Pixels(rect) \subseteq UNION { Pixels(l) : l \in L }
Tiny(rect) == rect.nDstXSize <= 1 /\ rect.nDstYSize <= 1

\* The windows of L in depth-first order, lower half first.
RECURSIVE DepthFirst(_, _)
DepthFirst(rect, L) ==
    IF rect \in L THEN << rect >>
    ELSE IF ~ Touches(rect, L) \/ Tiny(rect) THEN << >>
    ELSE DepthFirst(HalfLow(rect), L) \o DepthFirst(HalfHigh(rect), L)

\* L is an initial part of a depth-first walk of rect: an upper half is
\* entered only when the lower half is done.
RECURSIVE InitialPart(_, _)
InitialPart(rect, L) ==
    \/ rect \in L
    \/ ~ Touches(rect, L)
    \/ /\ ~ Tiny(rect)
       /\ InitialPart(HalfLow(rect), L)
       /\ InitialPart(HalfHigh(rect), L)
       /\ Touches(HalfHigh(rect), L) => Covers(L, HalfLow(rect))

ExecutedRects == [i \in 1..Len(trace.leaves) |-> trace.leaves[i].rect]

\* A failure is on its way back to the caller of ChunkAndWarpImage.
Failing ==
    /\ Running
    /\ \/ wr # NULL /\ Deref(wr).eErr # CE_None
       \/ wr = NULL /\ stack # << >> /\ Top.state = "done"
            /\ Top.eErr # CE_None

\* C14: the windows executed so far in a call are, in this order, an initial
\* part of the depth-first walk of the requested window in which the lower
\* half of every split comes before the upper half; and once a chunk or an
\* estimation has failed nothing more is executed and the call returns
\* CE_Failure.
C14_DepthFirstPrefix ==
    /\ [] ( lastCall = "ChunkAndWarpImage" /\ pc # "crashed" =>
              LET L == { ExecutedRects[i] : i \in 1..Len(ExecutedRects) }
              IN  /\ ExecutedRects = DepthFirst(topRect, L)
                  /\ InitialPart(topRect, L) )
    /\ [][ Failing =>
             /\ trace' = trace
             /\ Failing' \/ (pc' = "idle" /\ eErrLast' = CE_Failure) ]_vars

\* A call returned failure after the kernel failed on its third chunk.
C14_Witness ==
    /\ CallFailed
    /\ Len(trace.leaves) = 3
    /\ Len(trace.kernel) = 3
    /\ ~ trace.kernel[3].bOK
    /\ trace.kernel[1].bOK /\ trace.kernel[2].bOK

SmallFramesNeverSplit ==
    \A i \in 1..Len(stack) :
        (stack[i].rect.nDstXSize <= 2 /\ stack[i].rect.nDstYSize <= 2)
            => stack[i].state \notin {"first", "second"}

=============================================================================

